---- MODULE Spec2Model ----
(***************************************************************************)
(* Model of dr-fetch's DrFetch class (the abortable version): the request  *)
(* lifecycle of fetch(), the auto-abort registry (#autoAbortMap), the two  *)
(* fetch implementations (#simpleFetch, #abortableFetch) and #readBody.    *)
(*                                                                         *)
(* Scheduling: JavaScript's single-threaded event loop.  One action is one *)
(* run-to-completion step: the synchronous part of a fetch() call, a timer *)
(* callback, the continuation after the transport promise settles, or the  *)
(* continuation after the body conversion settles.                         *)
(*                                                                         *)
(* Records: every record constructor lists its fields in the order in      *)
(* which TLC keeps them (the order in which the names first occur in this  *)
(* module), so that normalising a record never rearranges it.              *)
(***************************************************************************)
EXTENDS Integers, Sequences, FiniteSets, TLC

\* ---------------------------------------------------------------- bounds
\* Number of fetch() calls made in one behaviour.
MaxReq == 3
\* Number of entries a fetcher's list of custom processors may reach.
MaxProcs == 2

\* The number of calls made through the shortcut functions.
MaxShortcuts == 1

\* ---------------------------------------------------------------- values
Fetchers == {"f1", "f2"}

\* init.autoAbort keys.  A key value is written <type>:<value>; "s:" is the
\* empty string, "n:0" the number 0, "y:k" a symbol.
StringKeys == {"s:a", "s:"}
NumberKeys == {"n:1", "n:0"}
SymbolKeys == {"y:k"}
KeyValues == StringKeys \cup NumberKeys \cup SymbolKeys
EmptyString == "s:"
Undefined == "undefined"

\* typeof k
TypeOf(k) ==
    IF k \in StringKeys THEN "string"
    ELSE IF k \in NumberKeys THEN "number"
    ELSE IF k \in SymbolKeys THEN "symbol"
    ELSE "undefined"

\* JavaScript truthiness of a key value (or of undefined).
Truthy(k) == k \notin {EmptyString, "n:0", Undefined}

\* autoAbort.delay: NoDelay stands for undefined.
NoDelay == -1
Delays == {0, 1}

\* init.autoAbort as the caller writes it: absent, a bare key, or an object.
NoAutoAbort == [form |-> "none", key |-> Undefined, delay |-> NoDelay]
BareAutoAbort(k) == [form |-> "bare", key |-> k, delay |-> NoDelay]
ObjAutoAbort(k, d) == [form |-> "object", key |-> k, delay |-> d]
AutoAbortOptions ==
    {NoAutoAbort} \cup {BareAutoAbort(k) : k \in KeyValues}
        \cup {ObjAutoAbort(k, d) : k \in KeyValues, d \in Delays \cup {NoDelay}}

\* Abort signals.  NoSignal is an init without signal; Ac(r) is the signal of
\* the AbortController that fetch() call number r creates; the others are
\* signals of controllers the caller owns.
NoSignal == <<"none", 0>>
CallerSignals == {<<"ext", 1>>}
Ac(r) == <<"ac", r>>

\* Errors: constructor, name, and who raised it for which call.
NoError == [ctor |-> "none", name |-> "none", by |-> "none", of |-> 0]
Err(c, n, b, r) == [ctor |-> c, name |-> n, by |-> b, of |-> r]
ErrorKinds == {<<"DOMException", "AbortError">>,
               <<"DOMException", "TimeoutError">>,
               <<"Error", "AbortError">>}
AbortErrorKind == <<"DOMException", "AbortError">>

\* A content-type header value is a sequence of tokens, <<>> when the header
\* is absent: "application/problem+json" is
\* <<"application", "/", "problem", "+", "json">>.
NoContentType == <<>>
CtJson == <<"application", "/", "json">>
CtProblemJson == <<"application", "/", "problem", "+", "json">>
CtTextPlain == <<"text", "/", "plain">>
CtPng == <<"image", "/", "png">>
CtLdJson == <<"application", "/", "ld", "+", "json">>
CtVndApiJson == <<"application", "/", "vnd.api", "+", "json">>
CtTextCsv == <<"text", "/", "csv">>
CtXml == <<"application", "/", "xml">>
ContentTypes == {NoContentType, CtJson, CtProblemJson, CtTextPlain, CtPng}
\* The tokens that consist of word characters (\w+); "vnd.api" is not one.
WordTokens == {"application", "json", "problem", "text", "plain", "image", "png",
               "ld", "csv", "xml"}

\* The status text a server sends with a status code.
StatusText(s) ==
    CASE s = 200 -> "OK"
      [] s = 204 -> "No Content"
      [] OTHER -> ""

\* Responses of the transport: ok, status, statusText, whether a body is
\* present, and the content-type header.
Resp(s, b, ct) == [ok |-> (s >= 200 /\ s =< 299), status |-> s,
                   statusText |-> StatusText(s), hasBody |-> b,
                   contentType |-> ct]
NoResponse == [ok |-> FALSE, status |-> 0, statusText |-> "none",
               hasBody |-> FALSE, contentType |-> NoContentType]

\* Body values: which routine produced the body ("null" when there is none).
NullBody == "null"

\* ------------------------------------------------------------ body routines
\* String.prototype.includes on token sequences: pat is a contiguous part of ct.
Includes(ct, pat) ==
    \E i \in 0..(Len(ct) - Len(pat)) :
        \A j \in 1..Len(pat) : ct[i + j] = pat[j]

\* /^application\/(\w+\+?)?json/.test(ct)
JsonRegexTest(ct) ==
    /\ Len(ct) >= 3
    /\ ct[1] = "application"
    /\ ct[2] = "/"
    /\ \/ ct[3] = "json"
       \/ Len(ct) >= 5 /\ ct[3] \in WordTokens /\ ct[4] = "+" /\ ct[5] = "json"

\* /^text\/.+/.test(ct)
TextRegexTest(ct) == Len(ct) >= 3 /\ ct[1] = "text" /\ ct[2] = "/"

\* A pattern is a string (token sequence) or one of the two stock regular
\* expressions.
StrPattern(toks) == [toks |-> toks, kind |-> "string"]
RegexPattern(re) == [toks |-> <<re>>, kind |-> "regex"]
jsonTypes == <<RegexPattern("json")>>
textTypes == <<RegexPattern("text")>>

RegexTest(pattern, ct) ==
    IF pattern.toks = <<"json">> THEN JsonRegexTest(ct) ELSE TextRegexTest(ct)

\* The other shapes of ProcessorPattern: an array of strings (each one token
\* here) and a predicate (response, contentType) => boolean, of which only
\* the value it would return matters.
ArrayPattern(toks) == [toks |-> toks, kind |-> "array"]
PredicatePattern(result) == [toks |-> <<result>>, kind |-> "predicate"]

\* if (!Array.isArray(types)) types = [types]
AsTypes(pattern) ==
    IF pattern.kind = "array"
    THEN [i \in 1..Len(pattern.toks) |-> StrPattern(<<pattern.toks[i]>>)]
    ELSE <<pattern>>

\* One turn of the loop of #contentMatchesType: a string is looked for in
\* the content type; of anything else the method test is called, which only
\* a regular expression has.
PatternStep(pattern, contentType) ==
    CASE pattern.kind = "string" ->
            IF Includes(contentType, pattern.toks) THEN "true" ELSE "false"
      [] pattern.kind = "regex" ->
            IF RegexTest(pattern, contentType) THEN "true" ELSE "false"
      [] OTHER -> "throw"

RECURSIVE ContentMatch(_, _)
\* The loop of #contentMatchesType: "true" or "throw" at the first pattern
\* that matches or throws, "false" when the loop ends.
ContentMatch(contentType, types) ==
    IF types = <<>> THEN "false"
    ELSE LET step == PatternStep(Head(types), contentType)
         IN IF step # "false" THEN step
            ELSE ContentMatch(contentType, Tail(types))

\* #contentMatchesType(contentType, types), types a sequence of patterns,
\* returns true.
ContentMatchesType(contentType, types) == ContentMatch(contentType, types) = "true"

\* #contentMatchesType(contentType, types) throws a TypeError.
ContentMatchThrows(contentType, types) == ContentMatch(contentType, types) = "throw"

\* ------------------------------------------------------ headers and bodies
\* Header names as callers write them, and String.prototype.toLowerCase.
HeaderNames ==
    {"Content-Type", "content-type", "CONTENT-TYPE", "Accept", "accept",
     "Authorization", "authorization"}
ToLowerCase(name) ==
    CASE name = "Content-Type" -> "content-type"
      [] name = "CONTENT-TYPE" -> "content-type"
      [] name = "Accept" -> "accept"
      [] name = "Authorization" -> "authorization"
      [] OTHER -> name

\* The order of the lower-case names, by which a Headers instance iterates.
NameRank(name) ==
    CASE name = "accept" -> 1
      [] name = "authorization" -> 2
      [] name = "content-type" -> 3
      [] OTHER -> 4

\* A header value: a string, held as the pieces it is concatenated from, or
\* (in a Map or POJO) an array of strings, held as its elements.
Text(s) == [toks |-> <<s>>, array |-> FALSE]
ArrayValue(items) == [toks |-> items, array |-> TRUE]
UndefinedValue == [undefined |-> TRUE]
IsArrayValue(value) == value.array

RECURSIVE JoinToks(_)
JoinToks(items) ==
    IF Len(items) <= 1 THEN items
    ELSE <<Head(items), ", ">> \o JoinToks(Tail(items))
\* value.join(', ')
Join(value) == [toks |-> JoinToks(value.toks), array |-> FALSE]

\* The entries after one assignment name := value: the entry whose name
\* equals `name` is replaced, or a new entry is added at the end.
Assign(entries, name, value) ==
    IF \E i \in 1..Len(entries) : entries[i][1] = name
    THEN [i \in 1..Len(entries) |->
            IF entries[i][1] = name THEN <<name, value>> ELSE entries[i]]
    ELSE Append(entries, <<name, value>>)

\* Headers.prototype.append(name, value): the name in lower case; a value
\* the instance already holds is kept and the new one follows it after ', '.
HeadersAppend(entries, name, value) ==
    LET lower == ToLowerCase(name) IN
    IF \E i \in 1..Len(entries) : entries[i][1] = lower
    THEN [i \in 1..Len(entries) |->
            IF entries[i][1] = lower
            THEN <<lower, [toks |-> entries[i][2].toks \o <<", ">> \o value.toks,
                           array |-> FALSE]>>
            ELSE entries[i]]
    ELSE Append(entries, <<lower, value>>)

\* Headers.prototype.set(name, value)
HeadersSet(entries, name, value) == Assign(entries, ToLowerCase(name), value)

RECURSIVE HeadersAppendAll(_, _)
HeadersAppendAll(entries, pairs) ==
    IF pairs = <<>> THEN entries
    ELSE HeadersAppendAll(HeadersAppend(entries, Head(pairs)[1], Head(pairs)[2]),
                          Tail(pairs))

\* init.headers: undefined, a POJO, a Map, an array of tuples or a Headers
\* instance, each with its entries <<name, value>> in insertion order.
NoHeaders == [entries |-> <<>>, shape |-> "undefined"]
PojoHeaders(entries) == [entries |-> entries, shape |-> "pojo"]
MapHeaders(entries) == [entries |-> entries, shape |-> "map"]
TupleHeaders(entries) == [entries |-> entries, shape |-> "tuples"]
\* new Headers(entries): every pair is appended.
NewHeaders(entries) ==
    [entries |-> HeadersAppendAll(<<>>, entries), shape |-> "Headers"]

RECURSIVE SortByName(_)
\* Headers.prototype.entries(): the pairs sorted by name.
SortByName(entries) ==
    IF entries = <<>> THEN <<>>
    ELSE LET i == CHOOSE i \in 1..Len(entries) :
                      \A j \in 1..Len(entries) :
                          NameRank(entries[i][1]) <= NameRank(entries[j][1])
         IN <<entries[i]>> \o
            SortByName([k \in 1..(Len(entries) - 1) |->
                           IF k < i THEN entries[k] ELSE entries[k + 1]])

\* makeIterableHeaders(headers): the <<name, value>> pairs of the collection.
MakeIterableHeaders(headers) ==
    IF headers.shape = "Headers" THEN SortByName(headers.entries)
    ELSE headers.entries

\* Mutant: the names are compared as written.
HasHeader_CaseSensitive(headers, header) ==
    \E i \in 1..Len(MakeIterableHeaders(headers)) :
        MakeIterableHeaders(headers)[i][1] = header

\* hasHeader(headers, header)
HasHeader(headers, header) ==
    \E i \in 1..Len(MakeIterableHeaders(headers)) :
        ToLowerCase(MakeIterableHeaders(headers)[i][1]) = ToLowerCase(header)

\* Mutant: the value of the last matching pair.
GetHeader_Last(headers, header) ==
    LET pairs == MakeIterableHeaders(headers)
        hits == {i \in 1..Len(pairs) : ToLowerCase(pairs[i][1]) = ToLowerCase(header)}
    IN IF hits = {} THEN UndefinedValue
       ELSE pairs[CHOOSE i \in hits : \A j \in hits : j <= i][2]

\* getHeader(headers, header): the value of the first matching pair.
GetHeader(headers, header) ==
    LET pairs == MakeIterableHeaders(headers)
        hits == {i \in 1..Len(pairs) : ToLowerCase(pairs[i][1]) = ToLowerCase(header)}
    IN IF hits = {} THEN UndefinedValue
       ELSE pairs[CHOOSE i \in hits : \A j \in hits : i <= j][2]

RECURSIVE SetTupleHeaders(_, _)
\* setTupleHeaders(headers, newHeaders): every new pair is pushed, an array
\* value joined.
SetTupleHeaders(entries, new) ==
    IF new = <<>> THEN entries
    ELSE LET value == IF IsArrayValue(Head(new)[2]) THEN Join(Head(new)[2])
                      ELSE Head(new)[2]
         IN SetTupleHeaders(Append(entries, <<Head(new)[1], value>>), Tail(new))

RECURSIVE AppendEach(_, _, _)
\* for (const v of value) headers.append(key, v)
AppendEach(entries, name, items) ==
    IF items = <<>> THEN entries
    ELSE AppendEach(HeadersAppend(entries, name, Text(Head(items))), name, Tail(items))

RECURSIVE SetHeadersInHeadersInstance(_, _)
\* setHeadersInHeadersInstance(headers, newHeaders): the elements of an array
\* value are appended, any other value is set.
SetHeadersInHeadersInstance(entries, new) ==
    IF new = <<>> THEN entries
    ELSE SetHeadersInHeadersInstance(
             IF IsArrayValue(Head(new)[2])
             THEN AppendEach(entries, Head(new)[1], Head(new)[2].toks)
             ELSE HeadersSet(entries, Head(new)[1], Head(new)[2]),
             Tail(new))

RECURSIVE SetPojoHeaders(_, _)
\* setPojoHeaders(headers, newHeaders): headers[key] = value, an array value
\* joined.
SetPojoHeaders(entries, new) ==
    IF new = <<>> THEN entries
    ELSE LET value == IF IsArrayValue(Head(new)[2]) THEN Join(Head(new)[2])
                      ELSE Head(new)[2]
         IN SetPojoHeaders(Assign(entries, Head(new)[1], value), Tail(new))

\* setHeaders(init, headers), init an object: the headers of init afterwards.
SetHeaders(initHeaders, headers) ==
    LET h == IF initHeaders.shape = "undefined" THEN NewHeaders(<<>>) ELSE initHeaders
        new == MakeIterableHeaders(headers)
    IN CASE h.shape = "tuples" -> TupleHeaders(SetTupleHeaders(h.entries, new))
         [] h.shape = "Headers" ->
                [h EXCEPT !.entries = SetHeadersInHeadersInstance(h.entries, new)]
         [] OTHER -> PojoHeaders(SetPojoHeaders(h.entries, new))

\* Bodies given to the shortcuts, by kind; json names the kind of the value
\* a string is the JSON text of ("none" for any other string).
BodyKinds == {"undefined", "null", "string", "object", "nullproto", "array",
              "Blob", "ArrayBuffer", "FormData", "URLSearchParams", "ReadableStream"}
Body(kind) == [kind |-> kind, json |-> "none"]
UndefinedBody == Body("undefined")

\* typeof body
TypeOfBody(body) ==
    CASE body.kind = "undefined" -> "undefined"
      [] body.kind = "string" -> "string"
      [] OTHER -> "object"

\* Object.getPrototypeOf(body), body an object.
PrototypeOf(body) ==
    CASE body.kind = "object" -> "Object.prototype"
      [] body.kind = "nullproto" -> "null"
      [] body.kind = "array" -> "Array.prototype"
      [] OTHER -> body.kind

\* Mutant: every object that is not null counts as a plain object.
IsPojo_AnyObject(body) == body.kind # "null" /\ TypeOfBody(body) = "object"

\* isPojo(obj)
IsPojo(body) ==
    IF body.kind = "null" \/ TypeOfBody(body) # "object" THEN FALSE
    ELSE IF PrototypeOf(body) = "null" THEN TRUE
    ELSE PrototypeOf(body) = "Object.prototype"

\* Array.isArray(body)
IsArray(body) == body.kind = "array"

\* JSON.stringify(body), body a plain object or an array.
JsonStringify(body) == [kind |-> "string", json |-> body.kind]

\* The header #createInit adds.
JsonContentType == <<"content-type", Text("application/json")>>

\* #createInit(body, init): the init the shortcut goes on with.
CreateInit(body, init) ==
    LET stringify == IsPojo(body) \/ IsArray(body)
        headers == IF init.headers.shape = "undefined" THEN PojoHeaders(<<>>)
                   ELSE init.headers
    IN [init EXCEPT
          !.headers = IF stringify /\ ~HasHeader(headers, "content-type")
                      THEN SetHeaders(init.headers, TupleHeaders(<<JsonContentType>>))
                      ELSE init.headers,
          !.body = IF stringify THEN JsonStringify(body) ELSE body]

\* The methods the shortcuts fix.
ShortcutNames == {"get", "head", "post", "patch", "delete", "put"}
ShortcutMethod(name) ==
    CASE name = "get" -> "GET"
      [] name = "head" -> "HEAD"
      [] name = "post" -> "POST"
      [] name = "patch" -> "PATCH"
      [] name = "delete" -> "DELETE"
      [] name = "put" -> "PUT"
NoMethod == "undefined"

\* Mutant: a method given by the caller is kept.
WithMethod_CallerWins(init, method) ==
    IF init.method # NoMethod THEN init ELSE [init EXCEPT !.method = method]

\* { ...init, method } and fullInit.method = method
WithMethod(init, method) == [init EXCEPT !.method = method]

\* ------------------------------------------------------------------- state
VARIABLES
    fetchFn,          \* #fetchFn of each fetcher: which transport function
    fetchImpl,        \* #fetchImpl of each fetcher
    autoAbortMap,     \* #autoAbortMap of each fetcher
    customProcessors, \* #customProcessors of each fetcher: a reference to an array
    arrays,           \* the contents of the arrays of custom processors
    clones,           \* history: the clone() calls made so far
    reqs,             \* the fetch() calls made so far, in call order
    abortedSignals,   \* the abort signals that are aborted
    calls             \* the invocations of transport functions, in order

vars == <<fetchFn, fetchImpl, autoAbortMap, customProcessors, arrays, clones,
          reqs, abortedSignals, calls>>

\* Transport functions.  "honestFn" settles the way the repository's test
\* transport does: it rejects with an AbortError when its signal is aborted
\* at the time it settles, and resolves with a response otherwise.  "anyFn"
\* may resolve with any response or reject with any error.
FetchFns == {"honestFn", "anyFn"}

\* The ambient standard fetch, fetch.bind(globalThis.window || global).
StdFetch == "stdFetch"

NotConstructed == "none"

\* The arrays of custom processors.  The array a fetcher is constructed with
\* (#customProcessors = []) and the copy clone() makes for it
\* ([...this.#customProcessors]) are named after the fetcher.
ArrayRefs == Fetchers

\* Custom processor functions a caller registers.
ProcessorFns == {"p1", "p2"}

\* #autoAbortMap: undefined, or a Map from keys to the request whose
\* controller is stored.
NoMap == [entries |-> {}, exists |-> FALSE]
EmptyMap == [entries |-> {}, exists |-> TRUE]
MapHas(m, k) == \E e \in m.entries : e[1] = k
MapGet(m, k) == (CHOOSE e \in m.entries : e[1] = k)[2]
MapSet(m, k, r) ==
    [m EXCEPT !.entries = {e \in m.entries : e[1] # k} \cup {<<k, r>>}]
MapDelete(m, k) == [m EXCEPT !.entries = {e \in m.entries : e[1] # k}]

\* get isAbortable
IsAbortable(f) == autoAbortMap[f].exists

\* The entries of this.#customProcessors.
Procs(f) == arrays[customProcessors[f]]

\* What a fetch() call has produced: nothing yet, a value it resolved with,
\* or an error it rejected with.
\* has lists the properties a value has; a property it lacks reads FALSE, 0
\* or "none" here.
Pending == [ok |-> FALSE, status |-> 0, statusText |-> "none", kind |-> "pending",
            body |-> "none", has |-> <<>>, aborted |-> FALSE,
            error |-> NoError]
AbortedResult(e) == [ok |-> FALSE, status |-> 0,
                     statusText |-> "none", kind |-> "value", body |-> "none",
                     has |-> <<"aborted", "error">>, aborted |-> TRUE, error |-> e]

\* Mutant: the result lacks the status text of the response.
NormalResult_NoStatusText(resp, body) ==
    [ok |-> resp.ok, status |-> resp.status,
     statusText |-> "none", kind |-> "value", body |-> body,
     has |-> <<"aborted", "ok", "status", "body">>, aborted |-> FALSE,
     error |-> NoError]

NormalResult(resp, body) ==
    [ok |-> resp.ok, status |-> resp.status,
     statusText |-> resp.statusText, kind |-> "value", body |-> body,
     has |-> <<"aborted", "ok", "status", "statusText", "body">>, aborted |-> FALSE,
     error |-> NoError]
Rejection(e) == [ok |-> FALSE, status |-> 0, statusText |-> "none", kind |-> "error",
                 body |-> "none", has |-> <<>>, aborted |-> FALSE,
                 error |-> e]

Issued == 1..Len(reqs)
Settled(r) == reqs[r].pc = "settled"
Unsettled(r) == reqs[r].pc # "settled"
TransportCalls(r) == {i \in 1..Len(calls) : calls[i].req = r}

TypeOK ==
    /\ fetchFn \in [Fetchers -> FetchFns \cup {StdFetch, NotConstructed}]
    /\ customProcessors \in [Fetchers -> ArrayRefs]
    /\ \A a \in ArrayRefs : Len(arrays[a]) =< MaxProcs
    /\ Len(clones) =< 1
    /\ fetchImpl \in [Fetchers -> {"simpleFetch", "abortableFetch"}]
    /\ \A f \in Fetchers : autoAbortMap[f].exists \in BOOLEAN
    /\ Len(reqs) =< MaxReq
    /\ \A r \in Issued :
        reqs[r].pc \in {"delaying", "fetching", "reading", "settled"}

\* new DrFetch(fetchFn): fetcher f1 is constructed with some transport
\* function; f2 is not constructed yet.
Init ==
    /\ fetchFn \in {[f \in Fetchers |-> IF f = "f1" THEN fn ELSE NotConstructed] :
                        fn \in FetchFns}
    /\ fetchImpl = [f \in Fetchers |-> "simpleFetch"]
    /\ autoAbortMap = [f \in Fetchers |-> NoMap]
    /\ customProcessors = [f \in Fetchers |-> f]
    /\ arrays = [a \in ArrayRefs |-> <<>>]
    /\ clones = <<>>
    /\ reqs = <<>>
    /\ abortedSignals = {}
    /\ calls = <<>>

\* ------------------------------------------------------------ fetch(): keys
\* The truthiness of init?.autoAbort.
OptionTruthy(autoAbort) ==
    CASE autoAbort.form = "none" -> FALSE
      [] autoAbort.form = "bare" -> Truthy(autoAbort.key)
      [] OTHER -> TRUE

\* autoAbort.key of fetch():
\* (typeof init?.autoAbort === 'string' ? init.autoAbort : init?.autoAbort?.key) ?? ''
ResolveKey(autoAbort) ==
    LET picked ==
            IF autoAbort.form = "bare" /\ TypeOf(autoAbort.key) = "string"
            THEN autoAbort.key
            ELSE IF autoAbort.form = "object" THEN autoAbort.key
            ELSE Undefined
    IN IF picked = Undefined THEN EmptyString ELSE picked

\* autoAbort.delay of fetch():
\* typeof init?.autoAbort === 'string' ? undefined : init?.autoAbort?.delay
ResolveDelay(autoAbort) ==
    IF autoAbort.form = "object" THEN autoAbort.delay ELSE NoDelay

\* Mutant: the controller stored under the key is not aborted.
AbortPrevious_Skipped(m, key, aborted) == aborted

\* Mutant: the guard of fetch() is missing.
MustThrow_Never(m, autoAbort) == FALSE

\* !this.#autoAbortMap && init?.autoAbort
MustThrow(m, autoAbort) == ~m.exists /\ OptionTruthy(autoAbort)

\* this.#autoAbortMap?.get(autoAbort.key)?.abort()
AbortPrevious(m, key, aborted) ==
    IF m.exists /\ MapHas(m, key)
    THEN aborted \cup {Ac(MapGet(m, key))}
    ELSE aborted

\* init.signal = ac.signal, in a keyed call; the caller's signal otherwise.
InitSignal(callerSignal, r, keyed) == IF keyed THEN Ac(r) ELSE callerSignal

\* Mutant: the finally callback is missing.
FinallyDelete_Skipped(m, key) == m

\* Mutant: the finally callback discards the registry.
FinallyDelete_DropsMap(m, key) == NoMap

\* .finally(() => this.#autoAbortMap?.delete(autoAbort.key))
FinallyDelete(m, key) == IF m.exists THEN MapDelete(m, key) ELSE m

\* The error fetch() throws when autoAbort is used on a non-abortable fetcher.
NotAbortableError(r) == Err("Error", "Error", "fetch", r)

\* new DOMException('Aborted', 'AbortError') of a call aborted during its delay.
DelayAbortError(r) == Err("DOMException", "AbortError", "fetch", r)

\* Mutant: the delay promise resolves with whether the registry no longer
\* holds the call's controller under its key.
DelayAborted_ByRegistry(r, aborted) ==
    <<reqs[r].key, r>> \notin autoAbortMap[reqs[r].f].entries

\* The value the delay promise resolves with: ac.signal.aborted.
DelayAborted(r, aborted) == Ac(r) \in aborted

\* -------------------------------------------------- the fetch implementations
\* Mutant: the catch clause is missing.
AbortableFetch_NoCatch(result) == result

\* Mutant: the catch clause tests the error's name only.
AbortableFetch_NameOnly(result) ==
    IF result.kind = "error" /\ result.error.name = "AbortError"
    THEN AbortedResult(result.error)
    ELSE result

\* Mutant: the cancelled result carries a new error, not the caught one.
AbortableFetch_NewError(result) ==
    IF /\ result.kind = "error"
       /\ result.error.ctor = "DOMException"
       /\ result.error.name = "AbortError"
    THEN AbortedResult(Err("DOMException", "AbortError", "fetch", result.error.of))
    ELSE result

\* Mutant: the try block holds the transport call only, not #readBody.
AbortableFetch_TransportOnly(result) ==
    IF /\ result.kind = "error"
       /\ result.error.ctor = "DOMException"
       /\ result.error.name = "AbortError"
       /\ result.error.by = "transport"
    THEN AbortedResult(result.error)
    ELSE result

\* The catch clause of #abortableFetch.
AbortableFetch(result) ==
    IF /\ result.kind = "error"
       /\ result.error.ctor = "DOMException"
       /\ result.error.name = "AbortError"
    THEN AbortedResult(result.error)
    ELSE result

\* Mutant: every fetcher converts cancellations, whatever its mode.
FetchImplResult_AlwaysCatch(impl, result) == AbortableFetch(result)

\* What this.#fetchImpl(url, init) settles with, given what #simpleFetch
\* settles with.
FetchImplResult(impl, result) ==
    IF impl = "abortableFetch" THEN AbortableFetch(result) ELSE result

MissingContentTypeError(r) == Err("Error", "MissingContentType", "readBody", r)
UnresolvedContentTypeError(r) == Err("Error", "UnresolvedContentType", "readBody", r)

\* Mutant: the last matching processor is taken.
FirstMatch_Last(procs, contentType) ==
    IF \E i \in 1..Len(procs) : ContentMatchesType(contentType, AsTypes(procs[i].pattern))
    THEN CHOOSE i \in 1..Len(procs) :
            /\ ContentMatchesType(contentType, AsTypes(procs[i].pattern))
            /\ \A j \in (i + 1)..Len(procs) :
                 ~ContentMatchesType(contentType, AsTypes(procs[j].pattern))
    ELSE 0

\* The first custom processor whose pattern matches, 0 when none does.
FirstMatch(procs, contentType) ==
    IF \E i \in 1..Len(procs) : ContentMatchesType(contentType, AsTypes(procs[i].pattern))
    THEN CHOOSE i \in 1..Len(procs) :
            /\ ContentMatchesType(contentType, AsTypes(procs[i].pattern))
            /\ \A j \in 1..(i - 1) :
                 ~ContentMatchesType(contentType, AsTypes(procs[j].pattern))
    ELSE 0

RECURSIVE LoopThrows(_, _)
\* Whether the loop over the custom processors ends with a TypeError: the
\* test of some pattern throws before any pattern has matched.
LoopThrows(procs, contentType) ==
    /\ procs # <<>>
    /\ LET m == ContentMatch(contentType, AsTypes(Head(procs).pattern))
       IN \/ m = "throw"
          \/ m = "false" /\ LoopThrows(Tail(procs), contentType)

NotAFunctionError(r) == Err("TypeError", "TypeError", "contentMatchesType", r)

\* Mutant: the processors are consulted although the response has no body.
ReadBody_NoBodyCheck(procs, response, r) ==
    IF response.contentType = NoContentType
    THEN IF response.hasBody
         THEN [step |-> "throw", error |-> MissingContentTypeError(r), proc |-> "none"]
         ELSE [step |-> "return", error |-> NoError, proc |-> "none"]
    ELSE IF FirstMatch(procs, response.contentType) # 0
    THEN [step |-> "await",
          error |-> NoError,
          proc |-> procs[FirstMatch(procs, response.contentType)].fn]
    ELSE IF ContentMatchesType(response.contentType, jsonTypes)
    THEN [step |-> "await", error |-> NoError, proc |-> "jsonParser"]
    ELSE IF ContentMatchesType(response.contentType, textTypes)
    THEN [step |-> "await", error |-> NoError, proc |-> "textParser"]
    ELSE [step |-> "throw", error |-> UnresolvedContentTypeError(r),
          proc |-> "none"]

\* Mutant: a missing content-type header is treated as an empty content type.
ReadBody_NoHeaderCheck(procs, response, r) ==
    IF ~response.hasBody
    THEN [step |-> "return", error |-> NoError, proc |-> "none"]
    ELSE IF FirstMatch(procs, response.contentType) # 0
    THEN [step |-> "await",
          error |-> NoError,
          proc |-> procs[FirstMatch(procs, response.contentType)].fn]
    ELSE IF ContentMatchesType(response.contentType, jsonTypes)
    THEN [step |-> "await", error |-> NoError, proc |-> "jsonParser"]
    ELSE IF ContentMatchesType(response.contentType, textTypes)
    THEN [step |-> "await", error |-> NoError, proc |-> "textParser"]
    ELSE [step |-> "throw", error |-> UnresolvedContentTypeError(r),
          proc |-> "none"]

\* Mutant: a body of an unknown content type is read as text.
ReadBody_TextFallback(procs, response, r) ==
    IF ~response.hasBody
    THEN [step |-> "return", error |-> NoError, proc |-> "none"]
    ELSE IF response.contentType = NoContentType
    THEN [step |-> "throw", error |-> MissingContentTypeError(r), proc |-> "none"]
    ELSE IF FirstMatch(procs, response.contentType) # 0
    THEN [step |-> "await",
          error |-> NoError,
          proc |-> procs[FirstMatch(procs, response.contentType)].fn]
    ELSE IF ContentMatchesType(response.contentType, jsonTypes)
    THEN [step |-> "await", error |-> NoError, proc |-> "jsonParser"]
    ELSE [step |-> "await", error |-> NoError, proc |-> "textParser"]

\* Mutant: the built-in decoders are tried before the custom processors.
ReadBody_BuiltinsFirst(procs, response, r) ==
    IF ~response.hasBody
    THEN [step |-> "return", error |-> NoError, proc |-> "none"]
    ELSE IF response.contentType = NoContentType
    THEN [step |-> "throw", error |-> MissingContentTypeError(r), proc |-> "none"]
    ELSE IF ContentMatchesType(response.contentType, jsonTypes)
    THEN [step |-> "await", error |-> NoError, proc |-> "jsonParser"]
    ELSE IF ContentMatchesType(response.contentType, textTypes)
    THEN [step |-> "await", error |-> NoError, proc |-> "textParser"]
    ELSE IF FirstMatch(procs, response.contentType) # 0
    THEN [step |-> "await",
          error |-> NoError,
          proc |-> procs[FirstMatch(procs, response.contentType)].fn]
    ELSE [step |-> "throw", error |-> UnresolvedContentTypeError(r),
          proc |-> "none"]

\* #readBody up to its first await: it returns null, throws, or calls a
\* routine (a custom processor, jsonParser or textParser) and awaits it.
ReadBody(procs, response, r) ==
    IF ~response.hasBody
    THEN [step |-> "return", error |-> NoError, proc |-> "none"]
    ELSE IF response.contentType = NoContentType
    THEN [step |-> "throw", error |-> MissingContentTypeError(r), proc |-> "none"]
    ELSE IF LoopThrows(procs, response.contentType)
    THEN [step |-> "throw", error |-> NotAFunctionError(r), proc |-> "none"]
    ELSE IF FirstMatch(procs, response.contentType) # 0
    THEN [step |-> "await",
          error |-> NoError,
          proc |-> procs[FirstMatch(procs, response.contentType)].fn]
    ELSE IF ContentMatchesType(response.contentType, jsonTypes)
    THEN [step |-> "await", error |-> NoError, proc |-> "jsonParser"]
    ELSE IF ContentMatchesType(response.contentType, textTypes)
    THEN [step |-> "await", error |-> NoError, proc |-> "textParser"]
    ELSE [step |-> "throw", error |-> UnresolvedContentTypeError(r),
          proc |-> "none"]

\* ------------------------------------------------------------------ actions
\* Mutant: abortable() always installs a new Map.
EnsureMap_Fresh(m) == EmptyMap

\* this.#autoAbortMap ??= new Map()
EnsureMap(m) == IF m.exists THEN m ELSE EmptyMap

\* new DrFetch(...).abortable()
Abortable(f) ==
    /\ fetchFn[f] # NotConstructed
    /\ fetchImpl' = [fetchImpl EXCEPT ![f] = "abortableFetch"]
    /\ autoAbortMap' = [autoAbortMap EXCEPT ![f] = EnsureMap(@)]
    /\ UNCHANGED <<arrays, clones, fetchFn, customProcessors, reqs, abortedSignals, calls>>

\* withProcessor(pattern, processorFn)
WithProcessor(f, pattern, fn) ==
    /\ fetchFn[f] # NotConstructed
    /\ Len(Procs(f)) < MaxProcs
    /\ arrays' = [arrays EXCEPT ![customProcessors[f]] =
                      Append(@, [pattern |-> pattern, fn |-> fn])]
    /\ UNCHANGED <<clones, fetchFn, fetchImpl, autoAbortMap, customProcessors, reqs,
                   abortedSignals, calls>>

\* clone(options): an option is "true", "false", a transport function (for
\* fetchFn), or omitted.
Omitted == "omitted"
CloneOptions(fn, includeProcessors, preserveAbortable) ==
    [fetchFn |-> fn, includeProcessors |-> includeProcessors,
     preserveAbortable |-> preserveAbortable]
DefaultCloneOptions == CloneOptions(Omitted, Omitted, Omitted)

\* opts = { includeProcessors: true, preserveAbortable: true, ...options }:
\* the value of a Boolean option after the defaults are applied.
OptFlag(v) == IF v = Omitted THEN TRUE ELSE v = "true"

\* Mutant: the clone always inherits the parent's transport.
CloneFetchFnArg_Inherit(option, parentFn) == parentFn

\* opts.fetchFn === false ? undefined : opts?.fetchFn ?? this.#fetchFn
CloneFetchFnArg(option, parentFn) ==
    IF option = "false" THEN Undefined
    ELSE IF option = Omitted THEN parentFn
    ELSE option

\* constructor: this.#fetchFn = fetchFn ?? fetch.bind(globalThis.window || global)
ConstructorFetchFn(arg) == IF arg = Undefined THEN StdFetch ELSE arg

\* Mutant: the clone is given the parent's array, not a copy of it.
CloneProcessorsRef_Shared(include, parentRef, childRef) ==
    IF include THEN parentRef ELSE childRef

\* Mutant: the processors are copied whatever includeProcessors says.
CloneProcessors_Always(include, parentProcs) == parentProcs

\* if (opts.includeProcessors) newClone.#customProcessors = [...this.#customProcessors]:
\* the contents of the clone's array, and the array the clone refers to (a
\* new one in both cases).
CloneProcessors(include, parentProcs) == IF include THEN parentProcs ELSE <<>>
CloneProcessorsRef(include, parentRef, childRef) == childRef

\* Mutant: an abortable clone is given a copy of the parent's registry.
CloneMap_Copied(preserve, parentMap) ==
    IF preserve /\ parentMap.exists THEN parentMap ELSE NoMap

\* Mutant: the clone is abortable whenever the parent is.
CloneAbortable_ParentOnly(preserve, parentMap) == parentMap.exists

\* if (opts.preserveAbortable && this.isAbortable) newClone.abortable()
CloneAbortable(preserve, parentMap) == preserve /\ parentMap.exists
CloneMap(preserve, parentMap) ==
    IF CloneAbortable(preserve, parentMap) THEN EnsureMap(NoMap) ELSE NoMap
CloneFetchImpl(preserve, parentMap) ==
    IF CloneAbortable(preserve, parentMap) THEN "abortableFetch" ELSE "simpleFetch"

\* History record of a clone() call: the options and the parent's state at
\* the time of cloning.
CloneRecord(parent, child, options) ==
    [parentFn |-> fetchFn[parent], parentProcs |-> Procs(parent),
     parent |-> parent, child |-> child, options |-> options,
     parentAbortable |-> IsAbortable(parent),
     parentLive |-> autoAbortMap[parent].entries]

\* child = parent.clone(options)
Clone(parent, child, options) ==
    /\ fetchFn[parent] # NotConstructed
    /\ fetchFn[child] = NotConstructed
    /\ fetchFn' = [fetchFn EXCEPT ![child] =
                       ConstructorFetchFn(CloneFetchFnArg(options.fetchFn, fetchFn[parent]))]
    /\ customProcessors' = [customProcessors EXCEPT ![child] =
           CloneProcessorsRef(OptFlag(options.includeProcessors),
                              customProcessors[parent], child)]
    /\ arrays' = [arrays EXCEPT ![child] =
           CloneProcessors(OptFlag(options.includeProcessors), Procs(parent))]
    /\ autoAbortMap' = [autoAbortMap EXCEPT ![child] =
           CloneMap(OptFlag(options.preserveAbortable), autoAbortMap[parent])]
    /\ fetchImpl' = [fetchImpl EXCEPT ![child] =
           CloneFetchImpl(OptFlag(options.preserveAbortable), autoAbortMap[parent])]
    /\ clones' = Append(clones, CloneRecord(parent, child, options))
    /\ UNCHANGED <<reqs, abortedSignals, calls>>

\* The caller aborts a controller of its own.
CallerAbort(sig) ==
    /\ sig \in CallerSignals \ abortedSignals
    /\ abortedSignals' = abortedSignals \cup {sig}
    /\ UNCHANGED <<arrays, clones, fetchFn, fetchImpl, autoAbortMap, customProcessors, reqs, calls>>

\* Whether call q is an earlier, still unsettled call on fetcher f to which
\* its caller gave the key value of `autoAbort` (bare or as autoAbort.key).
SameKeyUnsettled(q, f, autoAbort) ==
    /\ reqs[q].f = f
    /\ autoAbort.form # "none"
    /\ reqs[q].autoAbort.form # "none"
    /\ reqs[q].autoAbort.key = autoAbort.key
    /\ Truthy(autoAbort.key)
    /\ Unsettled(q)

\* History: each unsettled same-key call not yet superseded records the point
\* it had reached when the new call was made.
MarkSuperseded(f, autoAbort) ==
    [q \in Issued |->
        IF SameKeyUnsettled(q, f, autoAbort) /\ reqs[q].sup = "no"
        THEN [reqs[q] EXCEPT !.sup = reqs[q].pc]
        ELSE reqs[q]]

\* A call record as fetch() starts.  History fields: thrown is the error the
\* transport or the body routine raised, wasAbortable whether the fetcher was
\* abortable when the call was made, nprocs the number of custom processors
\* registered when #readBody ran, sup see MarkSuperseded.
NewReq(f, init) ==
    [key |-> ResolveKey(init.autoAbort), delay |-> ResolveDelay(init.autoAbort),
     headers |-> init.headers, body |-> init.body, method |-> init.method, f |-> f,
     pc |-> "settled", autoAbort |-> init.autoAbort,
     callerSignal |-> init.signal, impl |-> "none",
     response |-> NoResponse, proc |-> "none", sup |-> "no", signal |-> init.signal,
     via |-> init.via, given |-> init.given, left |-> 0, nprocs |-> 0,
     out |-> Pending, thrown |-> NoError, wasAbortable |-> IsAbortable(f)]

\* this.#fetchImpl(url, init): #simpleFetch calls this.#fetchFn(url, init)
\* before its first await.
Invocation(r, f, sig) == [req |-> r, fn |-> fetchFn[f], signal |-> sig]

\* fetch(url, init), up to its first await.
Fetch(f, init) ==
    /\ Len(reqs) < MaxReq
    /\ fetchFn[f] # NotConstructed
    /\ LET r == Len(reqs) + 1
           req == NewReq(f, init)
           keyed == Truthy(req.key)
           sig == InitSignal(init.signal, r, keyed)
           earlier == MarkSuperseded(f, init.autoAbort)
       IN IF MustThrow(autoAbortMap[f], init.autoAbort)
          THEN /\ reqs' = Append(reqs, [req EXCEPT
                              !.out = Rejection(NotAbortableError(r))])
               /\ UNCHANGED <<autoAbortMap, abortedSignals, calls>>
          ELSE /\ abortedSignals' =
                     IF keyed
                     THEN AbortPrevious(autoAbortMap[f], req.key, abortedSignals)
                     ELSE abortedSignals
               /\ autoAbortMap' =
                     IF keyed
                     THEN [autoAbortMap EXCEPT ![f] = MapSet(@, req.key, r)]
                     ELSE autoAbortMap
               /\ IF keyed /\ req.delay # NoDelay
                  THEN /\ reqs' = Append(earlier, [req EXCEPT !.signal = sig,
                                      !.pc = "delaying", !.left = req.delay])
                       /\ UNCHANGED calls
                  ELSE /\ reqs' = Append(earlier, [req EXCEPT !.signal = sig,
                                      !.pc = "fetching", !.impl = fetchImpl[f]])
                       /\ calls' = Append(calls, Invocation(r, f, sig))
    /\ UNCHANGED <<arrays, clones, fetchFn, fetchImpl, customProcessors>>

\* Time passes: enabled while timers are pending and none is due.
Tick ==
    /\ \E r \in Issued : reqs[r].pc = "delaying"
    /\ \A r \in Issued : reqs[r].pc = "delaying" => reqs[r].left > 0
    /\ reqs' = [r \in Issued |->
                   IF reqs[r].pc = "delaying"
                   THEN [reqs[r] EXCEPT !.left = @ - 1]
                   ELSE reqs[r]]
    /\ UNCHANGED <<arrays, clones, fetchFn, fetchImpl, autoAbortMap, customProcessors,
                   abortedSignals, calls>>

\* The setTimeout callback of call r and the rest of fetch() up to the next
\* await.  Due timers run in the order they were set.
TimerFires(r) ==
    /\ r \in Issued
    /\ reqs[r].pc = "delaying"
    /\ reqs[r].left = 0
    /\ \A q \in Issued : (reqs[q].pc = "delaying" /\ reqs[q].left = 0) => r =< q
    /\ IF DelayAborted(r, abortedSignals)
       THEN /\ reqs' = [reqs EXCEPT ![r].pc = "settled",
                                    ![r].out = AbortedResult(DelayAbortError(r))]
            /\ UNCHANGED calls
       ELSE /\ reqs' = [reqs EXCEPT ![r].pc = "fetching",
                                    ![r].impl = fetchImpl[reqs[r].f]]
            /\ calls' = Append(calls, Invocation(r, reqs[r].f, reqs[r].signal))
    /\ UNCHANGED <<arrays, clones, fetchFn, fetchImpl, autoAbortMap, customProcessors,
                   abortedSignals>>

\* this.#fetchImpl(url, init) settles with `result`, the finally callback
\* runs and fetch() settles; `response` is what the transport resolved with
\* and n the number of custom processors #readBody found.
SettleRead(r, result, response, n) ==
    /\ reqs' = [reqs EXCEPT ![r].pc = "settled",
                            ![r].out = FetchImplResult(reqs[r].impl, result),
                            ![r].thrown = result.error,
                            ![r].response = response,
                            ![r].nprocs = n]
    /\ autoAbortMap' = [autoAbortMap EXCEPT
                           ![reqs[r].f] = FinallyDelete(@, reqs[r].key)]

Settle(r, result) == SettleRead(r, result, reqs[r].response, reqs[r].nprocs)

\* Whether the transport function of call r may settle this way now.
MayResolve(r) ==
    fetchFn[reqs[r].f] = "honestFn" => reqs[r].signal \notin abortedSignals
MayReject(r, kind) ==
    fetchFn[reqs[r].f] = "honestFn" =>
        (kind = AbortErrorKind /\ reqs[r].signal \in abortedSignals)

\* The transport promise of call r resolves with `response`; #simpleFetch
\* runs #readBody up to its first await.
TransportResolves(r, response) ==
    /\ r \in Issued
    /\ reqs[r].pc = "fetching"
    /\ MayResolve(r)
    /\ LET rb == ReadBody(Procs(reqs[r].f), response, r)
           n == Len(Procs(reqs[r].f))
       IN CASE rb.step = "return" ->
                SettleRead(r, NormalResult(response, NullBody), response, n)
            [] rb.step = "throw" -> SettleRead(r, Rejection(rb.error), response, n)
            [] OTHER ->
                /\ reqs' = [reqs EXCEPT ![r].pc = "reading",
                                        ![r].response = response,
                                        ![r].proc = rb.proc,
                                        ![r].nprocs = Len(Procs(reqs[r].f))]
                /\ UNCHANGED autoAbortMap
    /\ UNCHANGED <<arrays, clones, fetchFn, fetchImpl, customProcessors, abortedSignals, calls>>

\* The transport promise of call r rejects.
TransportRejects(r, kind) ==
    /\ r \in Issued
    /\ reqs[r].pc = "fetching"
    /\ MayReject(r, kind)
    /\ Settle(r, Rejection(Err(kind[1], kind[2], "transport", r)))
    /\ UNCHANGED <<arrays, clones, fetchFn, fetchImpl, customProcessors, abortedSignals, calls>>

\* The body routine of call r resolves.
BodyResolves(r) ==
    /\ r \in Issued
    /\ reqs[r].pc = "reading"
    /\ Settle(r, NormalResult(reqs[r].response, reqs[r].proc))
    /\ UNCHANGED <<arrays, clones, fetchFn, fetchImpl, customProcessors, abortedSignals, calls>>

\* The body routine of call r rejects.
BodyRejects(r, kind) ==
    /\ r \in Issued
    /\ reqs[r].pc = "reading"
    /\ Settle(r, Rejection(Err(kind[1], kind[2], reqs[r].proc, r)))
    /\ UNCHANGED <<arrays, clones, fetchFn, fetchImpl, customProcessors, abortedSignals, calls>>

\* The init of a caller with this method, body and headers, without
\* autoAbort and signal.  via and given are not properties of init: they
\* record through which function fetch() was reached and what the caller
\* gave to it.
Given(method, body, headers) ==
    [headers |-> headers, body |-> body,
     method |-> method, autoAbort |-> NoAutoAbort, signal |-> NoSignal,
     via |-> "fetch",
     given |-> [headers |-> headers, body |-> body, method |-> method]]

\* The record of the call for a call that goes through shortcut `name` with
\* the caller's body argument.
Through(fullInit, name, body, init) ==
    [fullInit EXCEPT !.via = name,
                     !.given = [headers |-> init.headers, body |-> body,
                                method |-> init.method]]

\* get(url, init) and head(url, init)
Bodyless(f, name, init) ==
    /\ name \in {"get", "head"}
    /\ Fetch(f, Through(WithMethod(init, ShortcutMethod(name)), name, init.body, init))

\* post, patch, delete and put (url, body, init)
WithBody(f, name, body, init) ==
    /\ name \in {"post", "patch", "delete", "put"}
    /\ Fetch(f, Through(WithMethod(CreateInit(body, init), ShortcutMethod(name)),
                        name, body, init))

Get(f, init) == Bodyless(f, "get", init)
HeadShortcut(f, init) == Bodyless(f, "head", init)
Post(f, body, init) == WithBody(f, "post", body, init)
Patch(f, body, init) == WithBody(f, "patch", body, init)
Delete(f, body, init) == WithBody(f, "delete", body, init)
Put(f, body, init) == WithBody(f, "put", body, init)

\* The same written pairs carried in one of the four shapes of HeaderInput.
HeaderShapes == {"Headers", "map", "pojo", "tuples"}
Carry(shape, pairs) ==
    CASE shape = "Headers" -> NewHeaders(pairs)
      [] shape = "map" -> MapHeaders(pairs)
      [] shape = "tuples" -> TupleHeaders(pairs)
      [] OTHER -> PojoHeaders(pairs)

\* myFetch(url, init) of the README: init ??= {}; setHeaders(init, headers);
\* return fetch(url, init). `shape` and `pairs` say how the caller wrote the
\* new headers; `probe` is the name a test looks up, with hasHeader and
\* getHeader, in the init it finds at the transport and in the new headers.
MyFetch(f, init, shape, pairs, probe) ==
    LET set == Carry(shape, pairs)
        headers == SetHeaders(init.headers, set)
    IN Fetch(f, [init EXCEPT
                   !.headers = headers,
                   !.via = "setHeaders",
                   !.given = [headers |-> init.headers, body |-> init.body,
                              method |-> init.method, has |-> HasHeader(headers, probe),
                              probe |-> probe, set |-> set,
                              written |-> pairs,
                              got |-> GetHeader(headers, probe),
                              hasNew |-> HasHeader(set, probe),
                              gotNew |-> GetHeader(set, probe)]])

\* ----------------------------------------------------------- specifications
\* What a caller passes as init: the autoAbort option and the signal, and
\* for the rest what Given says.
Init0(autoAbort, sig) ==
    [Given(NoMethod, UndefinedBody, NoHeaders) EXCEPT
        !.autoAbort = autoAbort, !.signal = sig]

\* Registry lifecycle on one fetcher with an arbitrary transport: requests
\* under one string key, with and without a delay of 0.
InitAny == Init /\ fetchFn["f1"] = "anyFn"
SpecOptions == {BareAutoAbort("s:a"), ObjAutoAbort("s:a", 0)}
SpecResponses == {Resp(204, FALSE, NoContentType), Resp(200, TRUE, CtJson)}
SpecTransportErrors == {<<"DOMException", "AbortError">>, <<"Error", "AbortError">>}
SpecBodyErrors == {<<"DOMException", "TimeoutError">>}

Next ==
    \/ Abortable("f1")
    \/ \E o \in SpecOptions : Fetch("f1", Init0(o, NoSignal))
    \/ \E r \in 1..MaxReq : TimerFires(r)
    \/ \E r \in 1..MaxReq, resp \in SpecResponses : TransportResolves(r, resp)
    \/ \E r \in 1..MaxReq, k \in SpecTransportErrors : TransportRejects(r, k)
    \/ \E r \in 1..MaxReq : BodyResolves(r)
    \/ \E r \in 1..MaxReq, k \in SpecBodyErrors : BodyRejects(r, k)

Spec == InitAny /\ [][Next]_vars

\* Caller-supplied signals: keyed requests with and without a signal of the
\* caller, on a fetcher whose transport honours its signal; the caller may
\* abort its controller at any time.
InitHonest == Init /\ fetchFn["f1"] = "honestFn"
SignalOptions == {BareAutoAbort("s:a")}
SignalSignals == {NoSignal} \cup CallerSignals
SignalResponses == {Resp(200, TRUE, CtJson)}
SignalTransportErrors == {<<"DOMException", "AbortError">>}
SignalBodyErrors == {<<"DOMException", "TimeoutError">>}

NextSignal ==
    \/ Abortable("f1")
    \/ \E o \in SignalOptions, sig \in SignalSignals : Fetch("f1", Init0(o, sig))
    \/ \E sig \in CallerSignals : CallerAbort(sig)
    \/ \E r \in 1..MaxReq, resp \in SignalResponses : TransportResolves(r, resp)
    \/ \E r \in 1..MaxReq, k \in SignalTransportErrors : TransportRejects(r, k)
    \/ \E r \in 1..MaxReq : BodyResolves(r)
    \/ \E r \in 1..MaxReq, k \in SignalBodyErrors : BodyRejects(r, k)

SpecSignal == InitHonest /\ [][NextSignal]_vars

\* Debouncing: requests under one string key with the delays of Delays, with
\* no delay, and requests without a key.  The transport resolves with a
\* response without body or rejects with an AbortError.
DebounceOptions ==
    {NoAutoAbort, BareAutoAbort("s:a")} \cup {ObjAutoAbort("s:a", d) : d \in Delays}
DebounceResponses == {Resp(204, FALSE, NoContentType)}
DebounceErrors == {<<"DOMException", "AbortError">>}

NextDebounce ==
    \/ Abortable("f1")
    \/ \E o \in DebounceOptions : Fetch("f1", Init0(o, NoSignal))
    \/ Tick
    \/ \E r \in 1..MaxReq : TimerFires(r)
    \/ \E r \in 1..MaxReq, resp \in DebounceResponses : TransportResolves(r, resp)
    \/ \E r \in 1..MaxReq, k \in DebounceErrors : TransportRejects(r, k)

SpecDebounce == InitAny /\ [][NextDebounce]_vars

\* Key types: requests under a string, a number and a symbol key, each given
\* bare and as autoAbort.key.
KeysOptions ==
    {BareAutoAbort(k) : k \in {"s:a", "n:1", "y:k"}}
        \cup {ObjAutoAbort(k, NoDelay) : k \in {"s:a", "n:1", "y:k"}}
KeysResponses == {Resp(204, FALSE, NoContentType)}

NextKeys ==
    \/ Abortable("f1")
    \/ \E o \in KeysOptions : Fetch("f1", Init0(o, NoSignal))
    \/ \E r \in 1..MaxReq, resp \in KeysResponses : TransportResolves(r, resp)

SpecKeys == InitAny /\ [][NextKeys]_vars

\* Modes: requests without autoAbort, with a string key and with the falsy
\* autoAbort values, made before and after abortable(), with a transport
\* that rejects with every kind of error.
ModeOptions ==
    {NoAutoAbort, BareAutoAbort("s:a"), BareAutoAbort("s:"), BareAutoAbort("n:0")}
ModeResponses == {Resp(204, FALSE, NoContentType)}

NextMode ==
    \/ Abortable("f1")
    \/ \E o \in ModeOptions : Fetch("f1", Init0(o, NoSignal))
    \/ \E r \in 1..MaxReq, resp \in ModeResponses : TransportResolves(r, resp)
    \/ \E r \in 1..MaxReq, k \in ErrorKinds : TransportRejects(r, k)

SpecMode == InitAny /\ [][NextMode]_vars

\* Cancellation by the caller: requests without autoAbort, with and without
\* a signal of the caller, made before and after abortable(); the transport
\* honours its signal and the body routine may fail with an AbortError.
CallerOptions == {NoAutoAbort}
CallerResponses == {Resp(200, TRUE, CtJson)}
CallerErrors == {<<"DOMException", "AbortError">>}

NextCaller ==
    \/ Abortable("f1")
    \/ \E o \in CallerOptions, sig \in SignalSignals : Fetch("f1", Init0(o, sig))
    \/ \E sig \in CallerSignals : CallerAbort(sig)
    \/ \E r \in 1..MaxReq, resp \in CallerResponses : TransportResolves(r, resp)
    \/ \E r \in 1..MaxReq, k \in CallerErrors : TransportRejects(r, k)
    \/ \E r \in 1..MaxReq : BodyResolves(r)
    \/ \E r \in 1..MaxReq, k \in CallerErrors : BodyRejects(r, k)

SpecCaller == InitHonest /\ [][NextCaller]_vars

\* Body conversion failures: requests made before and after abortable(),
\* with and without a custom processor for text/plain; the body routine
\* (the custom processor or the text decode) resolves, or rejects with a
\* DOMException or an Error named AbortError.
BodyOptions == {NoAutoAbort}
BodyPatterns == {StrPattern(CtTextPlain)}
BodyProcessorFns == {"p1"}
BodyResponses == {Resp(200, TRUE, CtTextPlain)}
BodyErrors == {<<"DOMException", "AbortError">>, <<"Error", "AbortError">>}

NextBody ==
    \/ Abortable("f1")
    \/ \E pat \in BodyPatterns, fn \in BodyProcessorFns : WithProcessor("f1", pat, fn)
    \/ \E o \in BodyOptions : Fetch("f1", Init0(o, NoSignal))
    \/ \E r \in 1..MaxReq, resp \in BodyResponses : TransportResolves(r, resp)
    \/ \E r \in 1..MaxReq : BodyResolves(r)
    \/ \E r \in 1..MaxReq, k \in BodyErrors : BodyRejects(r, k)

SpecBody == InitAny /\ [][NextBody]_vars

\* Cloning and abortable mode: f1 is cloned into f2 with each value of
\* preserveAbortable, before or after abortable(); either fetcher may be
\* made abortable and make requests under one key, and f1 may be given a
\* processor.
CloneAbortOptions ==
    {CloneOptions(Omitted, Omitted, pa) : pa \in {"true", "false", Omitted}}
CloneAbortFetchOptions == {BareAutoAbort("s:a")}
CloneAbortPatterns == {StrPattern(CtTextPlain)}
CloneAbortProcessorFns == {"p1"}
CloneAbortResponses == {Resp(204, FALSE, NoContentType)}

NextCloneAbort ==
    \/ \E f \in Fetchers : Abortable(f)
    \/ \E o \in CloneAbortOptions : Clone("f1", "f2", o)
    \/ \E pat \in CloneAbortPatterns, fn \in CloneAbortProcessorFns :
            WithProcessor("f1", pat, fn)
    \/ \E f \in Fetchers, o \in CloneAbortFetchOptions : Fetch(f, Init0(o, NoSignal))
    \/ \E r \in 1..MaxReq, resp \in CloneAbortResponses : TransportResolves(r, resp)

SpecCloneAbort == InitAny /\ [][NextCloneAbort]_vars

\* Cloning and processors: f1 is cloned into f2 with each value of
\* includeProcessors; before and after, f1 is given processor p1 and f2
\* processor p2, both for content types that include "json"; the clone
\* makes requests that are answered with a JSON body.
CloneProcsOptions ==
    {CloneOptions(Omitted, ip, Omitted) : ip \in {"true", "false", Omitted}}
CloneProcsEntries == {<<"f1", StrPattern(<<"json">>), "p1">>,
                      <<"f2", StrPattern(<<"json">>), "p2">>}
CloneProcsResponses == {Resp(200, TRUE, CtJson)}

NextCloneProcs ==
    \/ \E o \in CloneProcsOptions : Clone("f1", "f2", o)
    \/ \E e \in CloneProcsEntries : WithProcessor(e[1], e[2], e[3])
    \/ Fetch("f2", Init0(NoAutoAbort, NoSignal))
    \/ \E r \in 1..MaxReq, resp \in CloneProcsResponses : TransportResolves(r, resp)
    \/ \E r \in 1..MaxReq : BodyResolves(r)

SpecCloneProcs == InitAny /\ [][NextCloneProcs]_vars

\* Cloning and transports: f1, whose transport is arbitrary, is cloned into
\* f2 with fetchFn omitted, false, or another transport function; both
\* fetchers make requests.
CloneFnOptions ==
    {CloneOptions(fn, Omitted, Omitted) : fn \in {Omitted, "false", "honestFn"}}
CloneFnResponses == {Resp(204, FALSE, NoContentType)}

NextCloneFn ==
    \/ \E o \in CloneFnOptions : Clone("f1", "f2", o)
    \/ \E f \in Fetchers : Fetch(f, Init0(NoAutoAbort, NoSignal))
    \/ \E r \in 1..MaxReq, resp \in CloneFnResponses : TransportResolves(r, resp)

SpecCloneFn == InitAny /\ [][NextCloneFn]_vars

\* Processor order: f1 is given processor p1 for content types that include
\* "json" and processor p2 for those that include "problem", in any order
\* and at any time; its requests are answered with application/json and
\* application/problem+json bodies, up to the invocation of the body routine.
ProcsEntries == {<<StrPattern(<<"json">>), "p1">>, <<StrPattern(<<"problem">>), "p2">>}
ProcsResponses == {Resp(200, TRUE, CtJson), Resp(200, TRUE, CtProblemJson)}

NextProcs ==
    \/ \E e \in ProcsEntries : WithProcessor("f1", e[1], e[2])
    \/ Fetch("f1", Init0(NoAutoAbort, NoSignal))
    \/ \E r \in 1..MaxReq, resp \in ProcsResponses : TransportResolves(r, resp)

SpecProcs == InitAny /\ [][NextProcs]_vars

\* Processor priority: f1 is first given processor p1 for content types that
\* include "json" and processor p2 for those that match /^text\/.+/, or some
\* of them; its requests are then answered with JSON and text bodies, and
\* with responses without body that carry a JSON content type or none.
PriorityEntries == {<<StrPattern(<<"json">>), "p1">>, <<RegexPattern("text"), "p2">>}
PriorityResponses ==
    {Resp(200, TRUE, CtJson), Resp(200, TRUE, CtTextPlain),
     Resp(200, FALSE, CtJson), Resp(204, FALSE, NoContentType)}

NextPriority ==
    \/ \E e \in PriorityEntries : Len(reqs) = 0 /\ WithProcessor("f1", e[1], e[2])
    \/ Fetch("f1", Init0(NoAutoAbort, NoSignal))
    \/ \E r \in 1..MaxReq, resp \in PriorityResponses : TransportResolves(r, resp)

SpecPriority == InitAny /\ [][NextPriority]_vars

\* Reading bodies: f1 is set up first (made abortable or not, given
\* processor p1 for content types that include "xml" or not); its requests
\* are then answered with bodies of JSON, text and other content types and
\* of none.
ReadEntries == {<<StrPattern(<<"xml">>), "p1">>}
ReadResponses ==
    {Resp(200, TRUE, ct) : ct \in {CtJson, CtLdJson, CtVndApiJson, CtTextCsv,
                                   CtXml, CtPng, NoContentType}}

NextRead ==
    \/ Len(reqs) = 0 /\ Abortable("f1")
    \/ \E e \in ReadEntries : Len(reqs) = 0 /\ WithProcessor("f1", e[1], e[2])
    \/ Fetch("f1", Init0(NoAutoAbort, NoSignal))
    \/ \E r \in 1..MaxReq, resp \in ReadResponses : TransportResolves(r, resp)
    \/ \E r \in 1..MaxReq : BodyResolves(r)

SpecRead == InitAny /\ [][NextRead]_vars

\* Pattern shapes: f1 is set up first with processors whose patterns are a
\* string, an array of strings and predicates that return true or false; its
\* requests are then answered with XML, PNG and CSV bodies.
ShapeEntries ==
    {<<StrPattern(<<"xml">>), "p1">>,
     <<ArrayPattern(<<"xml", "png">>), "p2">>,
     <<PredicatePattern("true"), "p1">>,
     <<PredicatePattern("false"), "p2">>}
ShapeResponses == {Resp(200, TRUE, ct) : ct \in {CtXml, CtPng, CtTextCsv}}

NextShape ==
    \/ \E e \in ShapeEntries : Len(reqs) = 0 /\ WithProcessor("f1", e[1], e[2])
    \/ Fetch("f1", Init0(NoAutoAbort, NoSignal))
    \/ \E r \in 1..MaxReq, resp \in ShapeResponses : TransportResolves(r, resp)
    \/ \E r \in 1..MaxReq : BodyResolves(r)

SpecShape == InitAny /\ [][NextShape]_vars

\* Shortcuts: f1 is called through its six shortcut functions with bodies of
\* every kind and an init whose headers are absent, a POJO, an array of
\* tuples or a Headers instance, with and without a content-type header in
\* some letter case, and whose method is absent or GET.
ShortcutHeaders ==
    {NoHeaders, PojoHeaders(<<>>), PojoHeaders(<<<<"Accept", Text("*/*")>>>>),
     PojoHeaders(<<<<"Content-Type", Text("text/plain")>>>>),
     PojoHeaders(<<<<"Accept", Text("*/*")>>, <<"CONTENT-TYPE", Text("application/json")>>>>),
     TupleHeaders(<<<<"Accept", Text("*/*")>>>>),
     TupleHeaders(<<<<"Content-Type", Text("text/plain")>>>>),
     NewHeaders(<<<<"Accept", Text("*/*")>>>>),
     NewHeaders(<<<<"Content-Type", Text("text/plain")>>>>)}
ShortcutInits ==
    {Given(m, UndefinedBody, h) : m \in {NoMethod, "GET"}, h \in ShortcutHeaders}

\* No more than MaxShortcuts calls are made.
MayCall == Len(reqs) < MaxShortcuts

NextShortcut ==
    \/ MayCall /\ \E i \in ShortcutInits : Get("f1", i)
    \/ MayCall /\ \E i \in ShortcutInits : HeadShortcut("f1", i)
    \/ MayCall /\ \E k \in BodyKinds, i \in ShortcutInits : Post("f1", Body(k), i)
    \/ MayCall /\ \E k \in BodyKinds, i \in ShortcutInits : Patch("f1", Body(k), i)
    \/ MayCall /\ \E k \in BodyKinds, i \in ShortcutInits : Delete("f1", Body(k), i)
    \/ MayCall /\ \E k \in BodyKinds, i \in ShortcutInits : Put("f1", Body(k), i)

SpecShortcut == InitAny /\ [][NextShortcut]_vars

\* Specification of the header utilities: one myFetch() call after another.
StringPairs ==
    {<<>>,
     <<<<"Accept", Text("application/json")>>>>,
     <<<<"content-type", Text("text/plain")>>>>,
     <<<<"Accept", Text("application/json")>>, <<"Authorization", Text("Bearer")>>>>,
     <<<<"Authorization", Text("Bearer")>>, <<"accept", Text("application/json")>>>>}
ArrayPairs ==
    {<<<<"Accept", ArrayValue(<<"application/json", "application/xml">>)>>>>,
     <<<<"accept", ArrayValue(<<"application/json">>)>>>>}
Destinations ==
    {NoHeaders,
     PojoHeaders(<<>>), PojoHeaders(<<<<"accept", Text("*/*")>>>>),
     PojoHeaders(<<<<"Accept", Text("*/*")>>>>),
     TupleHeaders(<<>>), TupleHeaders(<<<<"Accept", Text("*/*")>>>>),
     NewHeaders(<<>>), NewHeaders(<<<<"Accept", Text("*/*")>>>>)}
Probes == {"Accept", "authorization"}

NextHeaders ==
    \/ MayCall /\ \E d \in Destinations, s \in HeaderShapes, p \in StringPairs,
                     n \in Probes :
           MyFetch("f1", Given(NoMethod, UndefinedBody, d), s, p, n)
    \/ MayCall /\ \E d \in Destinations, s \in {"map", "pojo"}, p \in ArrayPairs,
                     n \in Probes :
           MyFetch("f1", Given(NoMethod, UndefinedBody, d), s, p, n)

SpecHeaders == InitAny /\ [][NextHeaders]_vars

\* Several keys: requests under a string key, under a number key with a
\* delay of 0, with the empty key and without autoAbort, on one fetcher.
IsolationOptions ==
    {NoAutoAbort, BareAutoAbort("s:"), BareAutoAbort("s:a"), ObjAutoAbort("n:1", 0)}
IsolationResponses == {Resp(204, FALSE, NoContentType)}
IsolationErrors == {<<"DOMException", "AbortError">>}

NextIsolation ==
    \/ Abortable("f1")
    \/ \E o \in IsolationOptions : Fetch("f1", Init0(o, NoSignal))
    \/ \E r \in 1..MaxReq : TimerFires(r)
    \/ \E r \in 1..MaxReq, resp \in IsolationResponses : TransportResolves(r, resp)
    \/ \E r \in 1..MaxReq, k \in IsolationErrors : TransportRejects(r, k)

SpecIsolation == InitAny /\ [][NextIsolation]_vars

\* Progress: requests under one string key, with no delay and with a delay of
\* 1; every timer fires, and every transport call and every body conversion
\* settles one way or the other.
LiveOptions == {BareAutoAbort("s:a"), ObjAutoAbort("s:a", 1)}
LiveResponses == {Resp(200, TRUE, CtJson)}
LiveErrors == {<<"DOMException", "AbortError">>}

TransportSettles(r) ==
    \/ \E resp \in LiveResponses : TransportResolves(r, resp)
    \/ \E k \in LiveErrors : TransportRejects(r, k)
ConversionSettles(r) ==
    \/ BodyResolves(r)
    \/ \E k \in LiveErrors : BodyRejects(r, k)

NextLive ==
    \/ Abortable("f1")
    \/ \E o \in LiveOptions : Fetch("f1", Init0(o, NoSignal))
    \/ Tick
    \/ \E r \in 1..MaxReq : TimerFires(r)
    \/ \E r \in 1..MaxReq, resp \in LiveResponses : TransportResolves(r, resp)
    \/ \E r \in 1..MaxReq, k \in LiveErrors : TransportRejects(r, k)
    \/ \E r \in 1..MaxReq : BodyResolves(r)
    \/ \E r \in 1..MaxReq, k \in LiveErrors : BodyRejects(r, k)

Fairness ==
    /\ WF_vars(Tick)
    /\ \A r \in 1..MaxReq : WF_vars(TimerFires(r))
    /\ \A r \in 1..MaxReq : WF_vars(TransportSettles(r))
    /\ \A r \in 1..MaxReq : WF_vars(ConversionSettles(r))

SpecLive == InitAny /\ [][NextLive]_vars /\ Fairness

\* ------------------------------------------------------------------- claims
\* A call registered under a key: its resolved key is truthy and the fetcher
\* accepted it.
Keyed(r) == Truthy(reqs[r].key) /\ reqs[r].signal = Ac(r)
\* A live keyed call: issued, not settled, its controller not aborted.
Live(r) == Keyed(r) /\ Unsettled(r) /\ Ac(r) \notin abortedSignals
Registered(r) == <<reqs[r].key, r>> \in autoAbortMap[reqs[r].f].entries

\* C1: for every fetcher and key, at most one call issued under that key is
\* live (issued, unsettled, controller not aborted).
C1_AtMostOneLivePerKey ==
    \A q, r \in Issued :
        (q < r /\ reqs[q].f = reqs[r].f /\ reqs[q].key = reqs[r].key
            /\ Keyed(q) /\ Keyed(r))
        => ~(Live(q) /\ Live(r))

\* C7: a settled keyed call's controller is not in the registry, and when no
\* call is pending the registry holds no entry.
C7_ReleasedOnSettle ==
    /\ \A r \in Issued : (Keyed(r) /\ Settled(r)) => ~Registered(r)
    /\ (\A r \in Issued : Settled(r)) =>
            \A f \in Fetchers : autoAbortMap[f].entries = {}

\* C7 witness: keyed calls have settled on each path (normal result, cancelled
\* result, transport rejection, body routine rejection) and nothing is pending.
C7_Witness ==
    /\ Len(reqs) = MaxReq
    /\ \A r \in Issued : Keyed(r) /\ Settled(r)
    /\ \E r \in Issued : reqs[r].out.kind = "value" /\ reqs[r].out.aborted
    /\ \E r \in Issued : reqs[r].out.kind = "error" /\ reqs[r].out.error.by = "jsonParser"
    /\ \E r \in Issued : reqs[r].out.kind = "error" /\ reqs[r].out.error.by = "transport"

\* The calls other than q and r registered on the same fetcher under the key
\* of q.
OtherSameKey(q, r) ==
    {x \in Issued \ {q, r} :
        reqs[x].f = reqs[q].f /\ reqs[x].key = reqs[q].key /\ Keyed(x)}

ResolvedAborted(r) ==
    Settled(r) /\ reqs[r].out.kind = "value" /\ reqs[r].out.aborted
ResolvedNormal(r) ==
    Settled(r) /\ reqs[r].out.kind = "value" /\ ~reqs[r].out.aborted

\* C2: a delayed keyed call during whose delay another call with the same key
\* is made on the same fetcher never invokes the transport and resolves with
\* aborted: true, whatever calls were made under the key before.
C2_SupersededInDelayNeverFetches ==
    \A r \in Issued :
        reqs[r].sup = "delaying" =>
            /\ TransportCalls(r) = {}
            /\ Settled(r) => ResolvedAborted(r)

\* C3: two calls with the same key and the same delay, the second made during
\* the delay of the first, and no other call under that key: the first never
\* invokes the transport and resolves with aborted: true; the transport is
\* invoked exactly once, for the second.
C3_DebouncedPair ==
    \A q, r \in Issued :
        (/\ q < r
         /\ reqs[q].f = reqs[r].f
         /\ Keyed(q) /\ Keyed(r)
         /\ reqs[q].key = reqs[r].key
         /\ reqs[q].delay # NoDelay
         /\ reqs[q].delay = reqs[r].delay
         /\ reqs[q].sup = "delaying"
         /\ OtherSameKey(q, r) = {})
        => /\ TransportCalls(q) = {}
           /\ Settled(q) => ResolvedAborted(q)
           /\ Cardinality(TransportCalls(r)) =< 1
           /\ Settled(r) => Cardinality(TransportCalls(r)) = 1

\* C3 witness: both calls of such a pair have settled, the first cancelled
\* and the second with a normal result.
C3_Witness ==
    \E q, r \in Issued :
        /\ q < r
        /\ reqs[q].f = reqs[r].f
        /\ Keyed(q) /\ Keyed(r)
        /\ reqs[q].key = reqs[r].key
        /\ reqs[q].delay = 1 /\ reqs[r].delay = 1
        /\ reqs[q].sup = "delaying"
        /\ OtherSameKey(q, r) = {}
        /\ ResolvedAborted(q)
        /\ ResolvedNormal(r)
        /\ Cardinality(TransportCalls(r)) = 1

\* The routines whose errors come from reading the body.
BodyRoutines == {"readBody", "jsonParser", "textParser"} \cup ProcessorFns

\* Two calls q, r with the same key and no delay on a fetcher with the
\* honest transport, r made when q had reached one of `points`, no other call
\* under that key: q resolves with aborted: true, r resolves with a normal
\* result unless reading its body fails, the transport is invoked at most
\* twice, and the signal of q's transport call is aborted.
SupersededPair(points) ==
    \A q, r \in Issued :
        (/\ q < r
         /\ reqs[q].f = reqs[r].f
         /\ fetchFn[reqs[q].f] = "honestFn"
         /\ Keyed(q) /\ Keyed(r)
         /\ reqs[q].key = reqs[r].key
         /\ reqs[q].delay = NoDelay /\ reqs[r].delay = NoDelay
         /\ reqs[q].sup \in points
         /\ OtherSameKey(q, r) = {})
        => /\ Settled(q) => ResolvedAborted(q)
           /\ (Settled(r) /\ reqs[r].thrown.by \notin BodyRoutines)
                => ResolvedNormal(r)
           /\ Cardinality(TransportCalls(q) \cup TransportCalls(r)) =< 2
           /\ \A i \in TransportCalls(q) : calls[i].signal \in abortedSignals

C5_EitherInputCancels ==
    \A i \in 1..Len(calls) :
        LET r == calls[i].req
        IN (Keyed(r) /\ reqs[r].callerSignal # NoSignal) =>
              /\ reqs[r].callerSignal \in abortedSignals
                    => calls[i].signal \in abortedSignals
              /\ Ac(r) \in abortedSignals => calls[i].signal \in abortedSignals

\* The caller of q gave a truthy key value, bare or as autoAbort.key.
GivenKey(q) == reqs[q].autoAbort.form # "none" /\ Truthy(reqs[q].autoAbort.key)
SameGivenKey(q, r) ==
    /\ reqs[q].f = reqs[r].f
    /\ GivenKey(q) /\ GivenKey(r)
    /\ reqs[q].autoAbort.key = reqs[r].autoAbort.key

\* For the first call q made under a key value of one of `types`, on an
\* abortable fetcher: once a later call with an equal key value is made while
\* q is unsettled, the signal q's transport call received is aborted.
FirstUnderKeyIsAborted(types) ==
    \A q \in Issued :
        (/\ reqs[q].wasAbortable
         /\ GivenKey(q)
         /\ TypeOf(reqs[q].autoAbort.key) \in types
         /\ reqs[q].sup # "no"
         /\ \A x \in Issued : x < q => ~SameGivenKey(x, q))
        => \A i \in TransportCalls(q) : calls[i].signal \in abortedSignals

\* C6: with a string, a number or a symbol key, given bare or as
\* autoAbort.key, a call made while an earlier call with an equal key is
\* unsettled aborts the earlier call.
C6_EveryKeyTypeSupersedes == FirstUnderKeyIsAborted({"string", "number", "symbol"})

\* The same for string keys alone, which holds.
StringKeySupersedes == FirstUnderKeyIsAborted({"string"})

\* Call r failed for want of abortable(): it rejected with the not-abortable
\* error, invoked no transport, created no controller and no registry entry.
RejectsWhenNotAbortable(r) ==
    /\ Settled(r)
    /\ reqs[r].out = Rejection(NotAbortableError(r))
    /\ TransportCalls(r) = {}
    /\ reqs[r].signal # Ac(r)
    /\ \A f \in Fetchers : \A e \in autoAbortMap[f].entries : e[2] # r

\* C8 as stated: every call with an autoAbort option on a fetcher that is not
\* abortable fails so.
C8_AnyAutoAbortFails ==
    \A r \in Issued :
        (~reqs[r].wasAbortable /\ reqs[r].autoAbort.form # "none")
            => RejectsWhenNotAbortable(r)

\* C8 amended: every call with a truthy autoAbort option (a non-empty string,
\* a non-zero number, a symbol or an object) on a fetcher that is not
\* abortable fails so.
C8_TruthyAutoAbortFails ==
    \A r \in Issued :
        (~reqs[r].wasAbortable /\ OptionTruthy(reqs[r].autoAbort))
            => RejectsWhenNotAbortable(r)

\* C8 witness: a call with a key was made on the fetcher before abortable(),
\* and the fetcher has been made abortable since.
C8_Witness ==
    \E r \in Issued :
        /\ ~reqs[r].wasAbortable
        /\ OptionTruthy(reqs[r].autoAbort)
        /\ RejectsWhenNotAbortable(r)
        /\ IsAbortable(reqs[r].f)

IsCancellation(e) == e.ctor = "DOMException" /\ e.name = "AbortError"

\* C9: on an abortable fetcher, when the transport rejects with a
\* DOMException named AbortError, fetch() resolves with aborted: true and
\* that very error.
C9_AbortErrorBecomesResult ==
    \A r \in Issued :
        (/\ Settled(r)
         /\ reqs[r].wasAbortable
         /\ reqs[r].thrown.by = "transport"
         /\ IsCancellation(reqs[r].thrown))
        => /\ reqs[r].out = AbortedResult(reqs[r].thrown)
           /\ reqs[r].thrown.of = r

\* C9 witness: such calls have settled, one with a key and one without.
C9_Witness ==
    \E q, r \in Issued :
        /\ Keyed(q) /\ ~Keyed(r)
        /\ \A x \in {q, r} :
            /\ reqs[x].wasAbortable
            /\ reqs[x].thrown.by = "transport"
            /\ IsCancellation(reqs[x].thrown)
            /\ ResolvedAborted(x)

\* C10: a transport rejection that is not a DOMException named AbortError
\* makes fetch() reject with the same error value, on abortable and
\* non-abortable fetchers, with and without a key; no call invokes the
\* transport more than once.
C10_OtherErrorsPropagate ==
    /\ \A r \in Issued :
        (/\ Settled(r)
         /\ reqs[r].thrown.by = "transport"
         /\ ~IsCancellation(reqs[r].thrown))
        => /\ reqs[r].out = Rejection(reqs[r].thrown)
           /\ reqs[r].thrown.of = r
    /\ \A r \in Issued : Cardinality(TransportCalls(r)) =< 1

\* C10 witness: a keyed call on the abortable fetcher, a call without key on
\* the abortable fetcher and a call on the fetcher before abortable() have
\* each rejected with the transport's error.
C10_Witness ==
    \E q, r, x \in Issued :
        /\ reqs[q].wasAbortable /\ Keyed(q)
        /\ reqs[r].wasAbortable /\ ~Keyed(r)
        /\ ~reqs[x].wasAbortable
        /\ \A y \in {q, r, x} :
            /\ reqs[y].out.kind = "error"
            /\ reqs[y].out.error.by = "transport"
            /\ Cardinality(TransportCalls(y)) = 1

\* A call without autoAbort that carried a signal of the caller, the caller
\* aborted the signal, and the transport or the body routine failed with the
\* cancellation error.
CancelledByCaller(r) ==
    /\ Settled(r)
    /\ reqs[r].autoAbort = NoAutoAbort
    /\ reqs[r].callerSignal \in CallerSignals \cap abortedSignals
    /\ reqs[r].signal = reqs[r].callerSignal
    /\ IsCancellation(reqs[r].thrown)

\* C11: a call without autoAbort cancelled through the caller's signal
\* rejects with the cancellation error when the fetcher was not abortable
\* when the call was made, and resolves with aborted: true (carrying that
\* error) when the fetcher was abortable.
C11_ModeDecidesCancellation ==
    \A r \in Issued :
        CancelledByCaller(r) =>
            IF reqs[r].wasAbortable
            THEN reqs[r].out = AbortedResult(reqs[r].thrown)
            ELSE reqs[r].out = Rejection(reqs[r].thrown)

\* C11 witness: the caller cancelled a call made before abortable() and a
\* call made after it, both during the transport call; the first rejected,
\* the second resolved with aborted: true.
C11_Witness ==
    \E q, r \in Issued :
        /\ CancelledByCaller(q) /\ CancelledByCaller(r)
        /\ reqs[q].thrown.by = "transport" /\ reqs[r].thrown.by = "transport"
        /\ ~reqs[q].wasAbortable /\ reqs[q].out.kind = "error"
        /\ reqs[r].wasAbortable /\ ResolvedAborted(r)

\* The routines #readBody awaits.
ConversionRoutines == {"jsonParser", "textParser"} \cup ProcessorFns

\* The body routine of call r rejected.
ConversionFailed(r) == Settled(r) /\ reqs[r].thrown.by \in ConversionRoutines

\* C12 (as stated): a rejection of the body routine makes fetch() reject
\* with the same error value, in both modes and whatever the error's class.
C12_BodyErrorsPropagate ==
    \A r \in Issued :
        ConversionFailed(r) => reqs[r].out = Rejection(reqs[r].thrown)

\* C12 (amended): a rejection of the body routine makes fetch() reject with
\* the same error value, except that a call made through #abortableFetch
\* resolves with aborted: true and that error when the error is a
\* DOMException named AbortError.
C12_BodyErrorsPropagateUnlessAbort ==
    \A r \in Issued :
        ConversionFailed(r) =>
            IF reqs[r].impl = "abortableFetch" /\ IsCancellation(reqs[r].thrown)
            THEN reqs[r].out = AbortedResult(reqs[r].thrown)
            ELSE reqs[r].out = Rejection(reqs[r].thrown)

\* C12 witness: on the abortable fetcher a custom processor failed with an
\* AbortError and the call resolved with aborted: true, a built-in decode
\* failed with another error and the call rejected; before abortable() a
\* routine failed with an AbortError and the call rejected.
C12_Witness ==
    \E q, r, x \in Issued :
        /\ ConversionFailed(q) /\ ConversionFailed(r) /\ ConversionFailed(x)
        /\ reqs[q].impl = "abortableFetch" /\ reqs[q].thrown.by \in ProcessorFns
        /\ IsCancellation(reqs[q].thrown) /\ ResolvedAborted(q)
        /\ reqs[r].impl = "abortableFetch" /\ reqs[r].thrown.by \in {"jsonParser", "textParser"}
        /\ ~IsCancellation(reqs[r].thrown) /\ reqs[r].out.kind = "error"
        /\ reqs[x].impl = "simpleFetch" /\ IsCancellation(reqs[x].thrown)
        /\ reqs[x].out.kind = "error"

\* C13: a fetcher made with new DrFetch() is not abortable; a call of
\* abortable() leaves the fetcher abortable; and no step (fetch and its
\* continuations, withProcessor, clone, abortable) makes an abortable
\* fetcher non-abortable.
C13_AbortableIsOneWay ==
    /\ ~IsAbortable("f1")
    /\ [][\A f \in Fetchers :
            /\ Abortable(f) => IsAbortable(f)'
            /\ IsAbortable(f) => IsAbortable(f)']_vars

\* C13 witness: after abortable(), f1 was cloned, then given a processor,
\* and a call made on it has settled; f1 is still abortable.
C13_Witness ==
    /\ IsAbortable("f1")
    /\ clones # <<>>
    /\ clones[1].parentAbortable
    /\ Len(Procs("f1")) > Len(clones[1].parentProcs)
    /\ \E r \in Issued :
        reqs[r].f = "f1" /\ reqs[r].wasAbortable /\ Settled(r) /\ Keyed(r)

\* This step issues a call on fetcher f that is registered under key k.
IssuesKeyed(f, k) ==
    /\ Len(reqs') = Len(reqs) + 1
    /\ reqs'[Len(reqs')].f = f
    /\ reqs'[Len(reqs')].key = k
    /\ Truthy(k)
    /\ reqs'[Len(reqs')].signal = Ac(Len(reqs'))

\* C14: abortable() called on a fetcher that is already abortable changes
\* nothing: the registry keeps its entries and every other field its value.
\* Hence any state of an abortable fetcher is also the state after a second
\* abortable(), and in it a call issued under a key aborts the controller
\* registered under that key.
C14_AbortableIdempotent ==
    [][\A f \in Fetchers :
        /\ (IsAbortable(f) /\ fetchImpl[f] = "abortableFetch" /\ Abortable(f))
                => UNCHANGED vars
        /\ \A q \in Issued :
             (/\ reqs[q].f = f /\ Keyed(q) /\ Registered(q)
              /\ IssuesKeyed(f, reqs[q].key))
                => Ac(q) \in abortedSignals']_vars

\* C14 witness: on the abortable fetcher a keyed call was in flight, in its
\* transport call, when a later call under the same key was issued, and its
\* controller is aborted.
C14_Witness ==
    \E q, r \in Issued :
        /\ q < r /\ reqs[q].f = reqs[r].f /\ reqs[q].key = reqs[r].key
        /\ Keyed(q) /\ Keyed(r)
        /\ IsAbortable(reqs[q].f)
        /\ fetchImpl[reqs[q].f] = "abortableFetch"
        /\ reqs[q].sup = "fetching"
        /\ Ac(q) \in abortedSignals
        /\ Unsettled(q)

\* The routine a fetcher whose processors are `procs` selects for a response
\* with a body of content type ct.
Select(procs, ct) == ReadBody(procs, Resp(200, TRUE, ct), 0).proc

\* C15: a step that changes the processors of one fetcher (withProcessor)
\* leaves the routine every other constructed fetcher selects unchanged, for
\* every content type; the only two fetchers are a parent and its clone.
C15_ProcessorListsIndependent ==
    [][\A f, g \in Fetchers :
        (/\ f # g
         /\ fetchFn[f] # NotConstructed /\ fetchFn[g] # NotConstructed
         /\ Procs(f)' # Procs(f))
        => \A ct \in ContentTypes :
              Select(Procs(g)', ct) = Select(Procs(g), ct)]_vars

\* C15 witness: the clone copied the parent's processor; afterwards the
\* parent and the clone were each given a further processor, and their lists
\* differ.
C15_Witness ==
    /\ clones # <<>>
    /\ clones[1].options.includeProcessors # "false"
    /\ Len(clones[1].parentProcs) = 1
    /\ Len(Procs("f1")) = 2 /\ Procs("f1")[2].fn = "p1"
    /\ Len(Procs("f2")) = 2 /\ Procs("f2")[2].fn = "p2"

\* The custom processor the parent selected for ct when it was cloned:
\* "none" when it selected none.
ParentSelected(c, ct) ==
    IF Select(c.parentProcs, ct) \in ProcessorFns
    THEN Select(c.parentProcs, ct)
    ELSE "none"

\* C16: a response read by a clone made with includeProcessors: false is
\* never converted by a processor of the parent; a response read by a clone
\* made with includeProcessors true or omitted is converted by the custom
\* processor the parent selected for its content type when it was cloned.
C16_CloneProcessors ==
    \A i \in 1..Len(clones) : \A r \in Issued :
        (reqs[r].f = clones[i].child /\ reqs[r].proc # "none") =>
            IF clones[i].options.includeProcessors = "false"
            THEN \A j \in 1..Len(clones[i].parentProcs) :
                    reqs[r].proc # clones[i].parentProcs[j].fn
            ELSE ParentSelected(clones[i], reqs[r].response.contentType) # "none"
                 => reqs[r].proc =
                        ParentSelected(clones[i], reqs[r].response.contentType)

\* C16 witness: the parent had processor p1 when it was cloned with
\* includeProcessors omitted; the clone was given p2 and then converted a
\* JSON response with p1.
C16_Witness ==
    \E r \in Issued :
        /\ clones # <<>>
        /\ clones[1].options.includeProcessors = Omitted
        /\ reqs[r].f = "f2"
        /\ reqs[r].nprocs = 2
        /\ Procs("f2")[2].fn = "p2"
        /\ reqs[r].response.contentType = CtJson
        /\ ParentSelected(clones[1], CtJson) = "p1"
        /\ reqs[r].proc = "p1"
        /\ ResolvedNormal(r)

\* The transport the fetchFn option of a clone() call asks for.
ExpectedTransport(c) ==
    CASE c.options.fetchFn = "false" -> StdFetch
      [] c.options.fetchFn = Omitted -> c.parentFn
      [] OTHER -> c.options.fetchFn

\* C17: every transport invocation made for a call on a clone invokes the
\* function given as fetchFn, the standard fetch when fetchFn is false, and
\* the parent's function when fetchFn is omitted; the parent keeps its
\* transport and every invocation made for a call on the parent invokes it.
C17_CloneTransport ==
    \A i \in 1..Len(clones) :
        /\ fetchFn[clones[i].parent] = clones[i].parentFn
        /\ fetchFn[clones[i].child] = ExpectedTransport(clones[i])
        /\ \A j \in 1..Len(calls) :
            /\ reqs[calls[j].req].f = clones[i].child
                    => calls[j].fn = ExpectedTransport(clones[i])
            /\ reqs[calls[j].req].f = clones[i].parent
                    => calls[j].fn = clones[i].parentFn

\* C17 witness: f1 was cloned with another transport function; a call on
\* the clone invoked that function and a later call on the parent invoked
\* the parent's.
C17_Witness ==
    \E j, k \in 1..Len(calls) :
        /\ j < k
        /\ clones # <<>>
        /\ clones[1].options.fetchFn = "honestFn"
        /\ clones[1].parentFn = "anyFn"
        /\ reqs[calls[j].req].f = "f2" /\ calls[j].fn = "honestFn"
        /\ reqs[calls[k].req].f = "f1" /\ calls[k].fn = "anyFn"
        /\ Settled(calls[j].req) /\ Settled(calls[k].req)

\* C18: a registry holds only controllers of calls made on its own fetcher
\* (so a clone's registry holds none of the parent's when the clone is
\* made), and a controller is aborted only when a later call under the same
\* key was made on the same fetcher: a call on the clone never aborts a call
\* on the parent, nor a call on the parent one on the clone.
C18_KeysPrivatePerInstance ==
    /\ \A f \in Fetchers : \A e \in autoAbortMap[f].entries :
            e[2] \in Issued /\ reqs[e[2]].f = f
    /\ \A q \in Issued :
            Ac(q) \in abortedSignals =>
                \E r \in Issued :
                    /\ q < r /\ reqs[r].f = reqs[q].f
                    /\ reqs[r].key = reqs[q].key /\ Keyed(q) /\ Keyed(r)

\* C18 witness: the parent had a call in flight under the key when it was
\* cloned; then the clone made a call under the same key, then the parent
\* another.  The parent's first call was not aborted when the clone made its
\* call (it settled normally) and the clone's call is still live.
C18_Witness ==
    \E q, r, x \in Issued :
        /\ q < r /\ r < x
        /\ reqs[q].f = "f1" /\ reqs[r].f = "f2" /\ reqs[x].f = "f1"
        /\ Keyed(q) /\ Keyed(r) /\ Keyed(x)
        /\ reqs[q].key = reqs[r].key /\ reqs[r].key = reqs[x].key
        /\ clones # <<>>
        /\ <<reqs[q].key, q>> \in clones[1].parentLive
        /\ autoAbortMap["f2"] = MapSet(EmptyMap, reqs[r].key, r)
        /\ ResolvedNormal(q) /\ Ac(q) \notin abortedSignals
        /\ Live(r) /\ Live(x)

\* C19: clone() makes an abortable fetcher exactly when the parent is
\* abortable and preserveAbortable is true or omitted.
C19_CloneAbortableIffPreserved ==
    [][\A o \in CloneAbortOptions :
        Clone("f1", "f2", o) =>
            (IsAbortable("f2")' <=>
                (IsAbortable("f1") /\ o.preserveAbortable \in {"true", Omitted}))]_vars

\* C19 witness: the abortable parent was cloned with preserveAbortable:
\* false, and a call with autoAbort on the clone failed because the clone is
\* not abortable.
C19_Witness ==
    \E r \in Issued :
        /\ clones # <<>>
        /\ clones[1].parentAbortable
        /\ clones[1].options.preserveAbortable = "false"
        /\ reqs[r].f = "f2"
        /\ reqs[r].out = Rejection(NotAbortableError(r))
        /\ ~IsAbortable("f2")

\* The processors registered on the fetcher of call r when #readBody ran for
\* it, in registration order.
ProcsSeen(r) == SubSeq(Procs(reqs[r].f), 1, reqs[r].nprocs)

\* Whether the pattern of a processor entry matches a content type: a string
\* pattern when the content type includes it.
EntryMatches(entry, ct) ==
    IF entry.pattern.kind = "string"
    THEN Includes(ct, entry.pattern.toks)
    ELSE RegexTest(entry.pattern, ct)

\* C20: when a response with a body and a content type is read, the routine
\* invoked is the processor of the first entry, in registration order, whose
\* pattern matches the content type; when no entry matches, no custom
\* processor is invoked.  One routine is invoked per response.
C20_FirstMatchWins ==
    \A r \in Issued :
        reqs[r].proc # "none" =>
            LET procs == ProcsSeen(r)
                ct == reqs[r].response.contentType
                matching == {i \in 1..Len(procs) : EntryMatches(procs[i], ct)}
            IN IF matching = {}
               THEN reqs[r].proc \notin ProcessorFns
               ELSE \E i \in matching :
                        /\ \A j \in matching : i =< j
                        /\ reqs[r].proc = procs[i].fn

\* C20 witness: two processors with different functions both match
\* application/problem+json; for a response of that type p2, registered
\* first, was invoked and the call awaits it.
C20_Witness ==
    \E r \in Issued :
        /\ reqs[r].nprocs = 2
        /\ ProcsSeen(r)[1].fn = "p2" /\ ProcsSeen(r)[2].fn = "p1"
        /\ reqs[r].response.contentType = CtProblemJson
        /\ EntryMatches(ProcsSeen(r)[1], CtProblemJson)
        /\ EntryMatches(ProcsSeen(r)[2], CtProblemJson)
        /\ reqs[r].pc = "reading"
        /\ reqs[r].proc = "p2"

BuiltInDecoders == {"jsonParser", "textParser"}

\* Some custom processor registered when the body of call r was read matches
\* the content type of its response.
SomeCustomMatches(r) ==
    \E i \in 1..Len(ProcsSeen(r)) :
        EntryMatches(ProcsSeen(r)[i], reqs[r].response.contentType)

\* C21: when the body of a response is read, a custom processor is invoked,
\* and no built-in decoder, whenever the pattern of some custom processor
\* matches the content type; a built-in decoder is invoked only when none
\* matches.
C21_CustomBeforeBuiltIn ==
    \A r \in Issued :
        reqs[r].proc # "none" =>
            IF SomeCustomMatches(r)
            THEN reqs[r].proc \in ProcessorFns
            ELSE reqs[r].proc \in BuiltInDecoders

\* C21 witness: with custom processor p1 alone registered, an
\* application/json response was given to p1, although the built-in JSON
\* pattern matches that type, and a text/plain response, which p1 does not
\* match, was given to the text decoder.
C21_Witness ==
    \E q, x \in Issued :
        /\ reqs[q].response.contentType = CtJson /\ reqs[q].proc = "p1"
        /\ JsonRegexTest(CtJson)
        /\ reqs[x].response.contentType = CtTextPlain
        /\ reqs[x].nprocs = 1 /\ ProcsSeen(x)[1].fn = "p1"
        /\ reqs[x].proc = "textParser"

\* application/json and the suffixed forms application/<name>+json.
IsJsonFamily(ct) ==
    \/ ct = <<"application", "/", "json">>
    \/ Len(ct) = 5 /\ ct[1] = "application" /\ ct[2] = "/" /\ ct[4] = "+"
                   /\ ct[5] = "json"

\* text/<something>.
IsTextFamily(ct) == Len(ct) = 3 /\ ct[1] = "text" /\ ct[2] = "/"

\* The body of the response of call r was given to `routine`, and what call
\* r resolved with, if it has settled, carries what that routine produced.
DecodedBy(r, routine) ==
    /\ reqs[r].proc = routine
    /\ Settled(r) =>
          /\ reqs[r].out.kind = "value" /\ ~reqs[r].out.aborted
          /\ reqs[r].out.body = routine

\* C22: a response with a body whose content type no custom processor
\* matches is decoded as JSON when the content type is application/json or
\* any application/<name>+json, and as text when it is text/<something>.
C22_FamiliesDecoded ==
    \A r \in Issued :
        (reqs[r].response.hasBody /\ ~SomeCustomMatches(r)) =>
            /\ IsJsonFamily(reqs[r].response.contentType) => DecodedBy(r, "jsonParser")
            /\ IsTextFamily(reqs[r].response.contentType) => DecodedBy(r, "textParser")

\* The part of C22 that the code satisfies: names made of word characters.
WordNamedFamiliesDecoded ==
    \A r \in Issued :
        (reqs[r].response.hasBody /\ ~SomeCustomMatches(r)) =>
            /\ (IsJsonFamily(reqs[r].response.contentType)
                   /\ reqs[r].response.contentType[3] \in WordTokens)
                 => DecodedBy(r, "jsonParser")
            /\ IsTextFamily(reqs[r].response.contentType) => DecodedBy(r, "textParser")

\* Call r has received a response from the transport.
GotResponse(r) == reqs[r].response # NoResponse

\* C23: a call whose response has no body resolves with a normal result
\* whose body is null, and no processor or decoder is invoked for it,
\* whatever its content-type header, an absent one included.
C23_NoBodyIsNull ==
    \A r \in Issued :
        (GotResponse(r) /\ ~reqs[r].response.hasBody) =>
            /\ Settled(r)
            /\ reqs[r].out.kind = "value" /\ ~reqs[r].out.aborted
            /\ reqs[r].out.body = NullBody
            /\ reqs[r].proc = "none"

\* C23 witness: a response without body but with content type
\* application/json arrived when a custom processor for "json" was
\* registered, another without body and without content type, and both calls
\* resolved with a null body.
C23_Witness ==
    \E q, r \in Issued :
        /\ reqs[q].response = Resp(200, FALSE, CtJson)
        /\ reqs[q].nprocs >= 1
        /\ SomeCustomMatches(q)
        /\ reqs[q].out.body = NullBody
        /\ reqs[r].response = Resp(204, FALSE, NoContentType)
        /\ reqs[r].out.body = NullBody

\* C24: a call whose response has a body but no content-type header is
\* rejected with the missing-content-type error and no processor or decoder
\* is invoked for it.
C24_MissingContentTypeFails ==
    \A r \in Issued :
        (reqs[r].response.hasBody /\ reqs[r].response.contentType = NoContentType) =>
            /\ Settled(r)
            /\ reqs[r].out = Rejection(MissingContentTypeError(r))
            /\ reqs[r].proc = "none"

\* C24 witness: such a response arrived, on an abortable fetcher with a
\* custom processor registered, and the call was rejected.
C24_Witness ==
    \E r \in Issued :
        /\ reqs[r].response = Resp(200, TRUE, NoContentType)
        /\ reqs[r].nprocs = 1
        /\ reqs[r].wasAbortable
        /\ reqs[r].out.kind = "error"

\* C25: a call whose response has a body and a content type that matches no
\* custom processor and neither built-in pattern is rejected with the
\* unresolved-content-type error and no processor or decoder is invoked.
C25_UnknownContentTypeFails ==
    \A r \in Issued :
        (/\ reqs[r].response.hasBody
         /\ reqs[r].response.contentType # NoContentType
         /\ ~SomeCustomMatches(r)
         /\ ~ContentMatchesType(reqs[r].response.contentType, jsonTypes)
         /\ ~ContentMatchesType(reqs[r].response.contentType, textTypes)) =>
            /\ Settled(r)
            /\ reqs[r].out = Rejection(UnresolvedContentTypeError(r))
            /\ reqs[r].proc = "none"

\* C25 witness: an image/png body arrived when the only custom processor was
\* one for "xml", and the call was rejected.
C25_Witness ==
    \E r \in Issued :
        /\ reqs[r].response = Resp(200, TRUE, CtPng)
        /\ reqs[r].nprocs = 1
        /\ reqs[r].out.kind = "error"

\* What a pattern is documented to decide for a content type: a string
\* matches when the content type includes it, a regular expression when it
\* tests true, an array when one of its elements matches, a predicate when
\* it returns true.
PatternHolds(pattern, ct) ==
    CASE pattern.kind = "string" -> Includes(ct, pattern.toks)
      [] pattern.kind = "regex" -> RegexTest(pattern, ct)
      [] pattern.kind = "array" ->
            \E i \in 1..Len(pattern.toks) : Includes(ct, <<pattern.toks[i]>>)
      [] OTHER -> pattern.toks = <<"true">>

\* The processor of the first entry seen by call r whose pattern holds for
\* the content type of its response, "none" when there is none.
FirstHolding(r) ==
    LET procs == ProcsSeen(r)
        ct == reqs[r].response.contentType
        holds == {i \in 1..Len(procs) : PatternHolds(procs[i].pattern, ct)}
    IN IF holds = {} THEN "none"
       ELSE procs[CHOOSE i \in holds : \A j \in holds : i =< j].fn

\* C26: when a response with a body and a content type is read, testing the
\* patterns never throws, whatever their shape (string, regular expression,
\* array, predicate), and the processor invoked is that of the first entry
\* whose pattern holds, a predicate holding when it returns true.
C26_EveryShapeMatches ==
    \A r \in Issued :
        (reqs[r].response.hasBody /\ reqs[r].response.contentType # NoContentType) =>
            /\ reqs[r].thrown.by # "contentMatchesType"
            /\ FirstHolding(r) # "none" => reqs[r].proc = FirstHolding(r)

\* The part of C26 that the code satisfies: strings and arrays of strings.
StringShapesMatch ==
    \A r \in Issued :
        (/\ reqs[r].response.hasBody /\ reqs[r].response.contentType # NoContentType
         /\ \A i \in 1..reqs[r].nprocs : ProcsSeen(r)[i].pattern.kind # "predicate") =>
            /\ reqs[r].thrown.by # "contentMatchesType"
            /\ FirstHolding(r) # "none" => reqs[r].proc = FirstHolding(r)

BodyShortcuts == {"post", "put", "patch", "delete"}

\* The caller gave a plain object or an array as body.
GaveStructured(r) == reqs[r].given.body.kind \in {"object", "nullproto", "array"}

\* The positions of the content-type entries of a header collection, in any
\* letter case.
ContentTypeEntries(headers) ==
    {i \in 1..Len(headers.entries) :
        headers.entries[i][1] \in {"content-type", "Content-Type", "CONTENT-TYPE"}}

\* C27: a call through post, put, patch or delete with a plain object or an
\* array as body reaches fetch() with the JSON text of that value as body;
\* when the caller's headers have a content-type entry in some letter case
\* they reach fetch() as given, otherwise with every entry given plus one
\* content-type entry, application/json.
C27_JsonBodyAndContentType ==
    \A r \in Issued :
        (reqs[r].via \in BodyShortcuts /\ GaveStructured(r)) =>
            /\ reqs[r].body = [kind |-> "string", json |-> reqs[r].given.body.kind]
            /\ IF ContentTypeEntries(reqs[r].given.headers) # {}
               THEN reqs[r].headers = reqs[r].given.headers
               ELSE /\ Cardinality(ContentTypeEntries(reqs[r].headers)) = 1
                    /\ \A i \in ContentTypeEntries(reqs[r].headers) :
                         reqs[r].headers.entries[i][2] = Text("application/json")
                    /\ \A i \in 1..Len(reqs[r].given.headers.entries) :
                         reqs[r].headers.entries[i] = reqs[r].given.headers.entries[i]

\* C27 witness: put() was called with an array and an init whose headers are
\* the tuples [['Content-Type', 'text/plain']]; the body is the JSON text
\* and the headers are as given.
C27_Witness ==
    \E r \in Issued :
        /\ reqs[r].via = "put"
        /\ reqs[r].given.body = Body("array")
        /\ reqs[r].given.headers = TupleHeaders(<<<<"Content-Type", Text("text/plain")>>>>)
        /\ reqs[r].body.json = "array"
        /\ reqs[r].headers = reqs[r].given.headers

\* C28: a call through post, put, patch or delete with a body that is
\* neither a plain object nor an array reaches fetch() with that body and
\* with the caller's headers, no content-type added.
C28_OtherBodiesUnchanged ==
    \A r \in Issued :
        (reqs[r].via \in BodyShortcuts /\ ~GaveStructured(r)) =>
            /\ reqs[r].body = reqs[r].given.body
            /\ reqs[r].headers = reqs[r].given.headers

\* C28 witness: post() was called with a FormData body and no headers, and
\* fetch() received the FormData and no headers.
C28_Witness ==
    \E r \in Issued :
        /\ reqs[r].via = "post"
        /\ reqs[r].given.body = Body("FormData")
        /\ reqs[r].given.headers = NoHeaders
        /\ reqs[r].body = Body("FormData")
        /\ reqs[r].headers = NoHeaders

\* The name of a shortcut in upper case.
UpperCase(name) ==
    CASE name = "get" -> "GET" [] name = "head" -> "HEAD"
      [] name = "post" -> "POST" [] name = "put" -> "PUT"
      [] name = "patch" -> "PATCH" [] name = "delete" -> "DELETE"

\* C29: every call of a shortcut makes exactly one call of fetch(), whose
\* method is the name of the shortcut in upper case, whatever method the
\* caller's init names.
C29_ShortcutFixesMethod ==
    [][/\ Len(reqs') = Len(reqs) + 1
       /\ SubSeq(reqs', 1, Len(reqs)) = reqs
       /\ reqs'[Len(reqs')].via \in ShortcutNames
       /\ reqs'[Len(reqs')].method = UpperCase(reqs'[Len(reqs')].via)]_vars

\* C29 witness: delete() was called with an init whose method is GET, and
\* fetch() received the method DELETE.
C29_Witness ==
    \E r \in Issued :
        /\ reqs[r].via = "delete"
        /\ reqs[r].given.method = "GET"
        /\ reqs[r].method = "DELETE"

SetCalls == {r \in 1..Len(reqs) : reqs[r].via = "setHeaders"}
\* The pairs have string values only, so every shape can carry them.
AllStrings(pairs) == \A i \in 1..Len(pairs) : ~IsArrayValue(pairs[i][2])

\* C31: makeIterableHeaders yields the same (name, value) pairs for the same
\* headers whichever of the four shapes carries them: for every call, the
\* pairs of the collection it gave equal the pairs of the same written
\* headers carried in each other shape.
C31_SamePairsInEveryShape ==
    \A r \in SetCalls :
        AllStrings(reqs[r].given.written) =>
            \A s \in HeaderShapes :
                MakeIterableHeaders(Carry(s, reqs[r].given.written))
                    = MakeIterableHeaders(reqs[r].given.set)

\* The entries of a collection whose name is `name`, letter case ignored.
EntriesFor(headers, name) ==
    {i \in 1..Len(headers.entries) :
        ToLowerCase(headers.entries[i][1]) = ToLowerCase(name)}
\* The collection holds exactly one entry for `name`, and its value is `value`.
HoldsOnly(headers, name, value) ==
    /\ Cardinality(EntriesFor(headers, name)) = 1
    /\ \A i \in EntriesFor(headers, name) : headers.entries[i][2] = value

\* C32: setHeaders sets and does not append: after setHeaders(init, headers),
\* for every name in the new headers init.headers holds exactly one entry
\* for that name, and it has the new value.
C32_SetsNotAppends ==
    \A r \in SetCalls :
        AllStrings(reqs[r].given.written) =>
            \A i \in 1..Len(MakeIterableHeaders(reqs[r].given.set)) :
                HoldsOnly(reqs[r].headers,
                          MakeIterableHeaders(reqs[r].given.set)[i][1],
                          MakeIterableHeaders(reqs[r].given.set)[i][2])

\* The same statement for the destinations that held no entry: it holds.
SetsIntoEmpty ==
    \A r \in SetCalls :
        (AllStrings(reqs[r].given.written) /\ reqs[r].given.headers.entries = <<>>) =>
            \A i \in 1..Len(MakeIterableHeaders(reqs[r].given.set)) :
                HoldsOnly(reqs[r].headers,
                          MakeIterableHeaders(reqs[r].given.set)[i][1],
                          MakeIterableHeaders(reqs[r].given.set)[i][2])

\* C33: a header given with an array of values leaves the destination with
\* one entry for that header, whose value is the values joined by ', ' in
\* the given order, for every destination shape.
C33_ArrayValuesJoined ==
    \A r \in SetCalls :
        \A i \in 1..Len(reqs[r].given.written) :
            IsArrayValue(reqs[r].given.written[i][2]) =>
                HoldsOnly(reqs[r].headers, reqs[r].given.written[i][1],
                          Join(reqs[r].given.written[i][2]))

\* The same statement for the destinations that held no entry: it holds.
ArrayValuesJoinedIntoEmpty ==
    \A r \in SetCalls :
        reqs[r].given.headers.entries = <<>> =>
            \A i \in 1..Len(reqs[r].given.written) :
                IsArrayValue(reqs[r].given.written[i][2]) =>
                    HoldsOnly(reqs[r].headers, reqs[r].given.written[i][1],
                              Join(reqs[r].given.written[i][2]))

\* The first of a non-empty set of positions.
First(positions) == CHOOSE i \in positions : \A j \in positions : i <= j

\* C34: hasHeader and getHeader ignore the letter case of the name in every
\* shape and agree: hasHeader is true exactly when some entry's name equals
\* the name sought, case ignored, and getHeader then gives the value of the
\* first such entry, otherwise undefined.
C34_LookupIgnoresCase ==
    \A r \in SetCalls :
        LET hits == EntriesFor(reqs[r].headers, reqs[r].given.probe)
            news == EntriesFor(reqs[r].given.set, reqs[r].given.probe)
        IN
        /\ reqs[r].given.has = (hits # {})
        /\ reqs[r].given.got =
               IF hits = {} THEN UndefinedValue
               ELSE reqs[r].headers.entries[First(hits)][2]
        /\ reqs[r].given.hasNew = (news # {})
        /\ reqs[r].given.gotNew =
               IF news = {} THEN UndefinedValue
               ELSE reqs[r].given.set.entries[First(news)][2]

\* C34 witness: the name sought is written Accept, the collection holds
\* accept and Accept with different values, and the value found is the one
\* of accept, the first of the two.
C34_Witness ==
    \E r \in SetCalls :
        /\ reqs[r].given.probe = "Accept"
        /\ reqs[r].headers.shape = "pojo"
        /\ Len(reqs[r].headers.entries) = 2
        /\ reqs[r].headers.entries[1] = <<"accept", Text("*/*")>>
        /\ reqs[r].headers.entries[2] = <<"Accept", Text("application/json")>>
        /\ reqs[r].given.has
        /\ reqs[r].given.got = Text("*/*")

\* ---------------------------------------------------------------------
\* The registry, step by step
\* ---------------------------------------------------------------------
\* The keyed calls made after r on the same fetcher under the same key.
LaterSameKey(r) ==
    {x \in Issued : x > r /\ reqs[x].f = reqs[r].f /\ Keyed(x)
                       /\ reqs[x].key = reqs[r].key}

\* C35: the settlement of a keyed call removes only that call's own
\* controller: the newest call under a key, while it has not settled, is
\* still registered under the key (so that the next call under the key
\* aborts it), whichever earlier calls under the key have settled.
C35_NewestStaysRegistered ==
    \A r \in Issued :
        (Keyed(r) /\ Unsettled(r) /\ LaterSameKey(r) = {}) => Registered(r)

\* C36: within one fetch() call the controller registered under the key is
\* aborted and the new one stored in one step: whenever the entry of a key
\* passes from one controller to another, the controller it held is aborted
\* in the same state in which the new one is registered.
C36_AbortedBeforeReplaced ==
    [][\A f \in Fetchers :
          \A e \in autoAbortMap[f].entries :
              \A n \in autoAbortMap'[f].entries :
                  (e[1] = n[1] /\ e[2] # n[2]) => Ac(e[2]) \in abortedSignals']_vars

\* C36 witness: a call still in flight whose controller was replaced in the
\* registry by the next call under its key, and is aborted.
C36_Witness ==
    \E q, r \in Issued :
        /\ q < r
        /\ Keyed(q) /\ Keyed(r)
        /\ reqs[q].f = reqs[r].f /\ reqs[q].key = reqs[r].key
        /\ reqs[q].sup = "fetching"
        /\ Unsettled(q)
        /\ Registered(r)
        /\ Ac(q) \in abortedSignals

\* C37: at the end of its delay a keyed call decides by its own controller
\* alone: it settles as cancelled without a transport call exactly when its
\* controller is aborted, and otherwise invokes the transport, whatever the
\* registry holds under its key.
C37_DecidesByOwnController ==
    [][\A r \in Issued :
          (reqs[r].pc = "delaying" /\ reqs'[r].pc # "delaying") =>
              IF Ac(r) \in abortedSignals
              THEN /\ reqs'[r].pc = "settled"
                   /\ reqs'[r].out.kind = "value" /\ reqs'[r].out.aborted
                   /\ calls' = calls
              ELSE /\ reqs'[r].pc = "fetching"
                   /\ calls' = Append(calls, Invocation(r, reqs[r].f, Ac(r)))]_vars

\* C37 witness: a call superseded during its delay whose controller was no
\* longer registered when it was superseded, and so was not aborted: at its
\* timer it invoked the transport, while the registry held the controller of
\* the later call.
C37_Witness ==
    \E r \in Issued :
        /\ reqs[r].delay # NoDelay
        /\ reqs[r].sup = "delaying"
        /\ Ac(r) \notin abortedSignals
        /\ reqs[r].pc = "fetching"
        /\ TransportCalls(r) # {}
        /\ \E x \in LaterSameKey(r) : Registered(x)

\* The entries of the registries under the keys other than k.
EntriesExcept(map, k) ==
    [f \in Fetchers |-> {e \in map[f].entries : e[1] # k}]

\* C38: calls under different keys and calls without a key do not interact:
\* a step in which a call with key k is issued, leaves its delay or settles
\* aborts no call registered under another key and leaves the entries of the
\* other keys as they were; a call without a key or with the empty key gets
\* no controller, is never aborted by the registry, and leaves the registry
\* as it was when it is issued and when it settles.
C38_KeysDoNotInteract ==
    [][\A r \in 1..Len(reqs') :
          (r \notin Issued \/ reqs[r].pc # reqs'[r].pc) =>
              /\ EntriesExcept(autoAbortMap', reqs'[r].key)
                     = EntriesExcept(autoAbortMap, reqs'[r].key)
              /\ \A q \in Issued :
                     (Keyed(q) /\ reqs[q].key # reqs'[r].key) =>
                         (Ac(q) \in abortedSignals' <=> Ac(q) \in abortedSignals)
              /\ ~Truthy(reqs'[r].key) =>
                     /\ reqs'[r].signal = reqs'[r].callerSignal
                     /\ Ac(r) \notin abortedSignals'
                     /\ \A f \in Fetchers :
                            autoAbortMap'[f].entries = autoAbortMap[f].entries
                     /\ abortedSignals' = abortedSignals]_vars

\* C38 witness: a call under one key is live and registered after a call
\* under another key was issued and has settled, and after a call without a
\* key was issued and has settled.
C38_Witness ==
    \E a, b, k \in Issued :
        /\ a < b /\ b < k
        /\ Keyed(a) /\ Keyed(b) /\ reqs[a].key # reqs[b].key
        /\ ~Truthy(reqs[k].key) /\ reqs[k].pc = "settled"
        /\ reqs[b].pc = "settled" /\ TransportCalls(b) # {}
        /\ Live(a) /\ Registered(a)

\* ---------------------------------------------------------------------
\* Progress and timing
\* ---------------------------------------------------------------------
\* Every call that is made settles.
EveryCallSettles ==
    \A r \in 1..MaxReq : (r \in Issued) ~> (r \in Issued /\ Settled(r))

\* A call superseded during its delay settles in the step of its own timer,
\* and as cancelled.
SupersededSettlesAtTimer ==
    [][\A r \in Issued :
          (reqs'[r].sup = "delaying" /\ Unsettled(r) /\ reqs'[r].pc = "settled") =>
              /\ reqs[r].pc = "delaying" /\ reqs[r].left = 0
              /\ Len(reqs') = Len(reqs)
              /\ reqs'[r].out.kind = "value" /\ reqs'[r].out.aborted]_vars

\* A call whose controller is aborted during its delay stays pending until
\* its own timer fires, and then settles as cancelled.
AbortedInDelaySettlesAtTimer ==
    /\ [][\A r \in Issued :
             (reqs[r].pc = "delaying" /\ Ac(r) \in abortedSignals') =>
                 \/ reqs'[r].pc = "delaying"
                 \/ /\ reqs[r].left = 0
                    /\ reqs'[r].pc = "settled"
                    /\ reqs'[r].out.kind = "value" /\ reqs'[r].out.aborted]_vars
    /\ \A r \in 1..MaxReq :
           (r \in Issued /\ reqs[r].pc = "delaying" /\ Ac(r) \in abortedSignals)
               ~> (r \in Issued /\ ResolvedAborted(r))

\* C39: every fetch() call eventually settles, provided every transport call
\* and every body conversion settles and every delay timer fires; and a
\* delayed call superseded during its delay settles as cancelled when its own
\* timer fires, not when it is superseded.
C39_SettlesEventually == EveryCallSettles /\ SupersededSettlesAtTimer

\* A keyed call with no delay has invoked the transport in every state after
\* its issue, and a keyed call with a delay has not while its timer pends.
InvokedAtOnceOrDeferred ==
    \A r \in Issued :
        Keyed(r) =>
            /\ reqs[r].delay = NoDelay => Cardinality(TransportCalls(r)) = 1
            /\ reqs[r].pc = "delaying" => TransportCalls(r) = {}

\* C40: a keyed call with no delay invokes the transport before fetch()
\* first yields, so a same-key call made right after it cannot prevent that
\* transport call; a keyed call with delay 0 is deferred behind a timer, and
\* a same-key call made before that timer fires prevents its transport call
\* entirely.
C40_DelayZeroStillDeferred ==
    /\ InvokedAtOnceOrDeferred
    /\ \A r \in Issued :
           (Keyed(r) /\ reqs[r].delay = 0 /\ reqs[r].sup = "delaying") =>
               TransportCalls(r) = {}

====
